---- MODULE Spec2Model ----
(***************************************************************************)
(* Model of the execute routines of the DocRouter n8n nodes                *)
(* (Document, Tag, Schema, LLM, KnowledgeBase, Account and the             *)
(* single-operation DocRouter upload node).                                *)
(*                                                                         *)
(* A JavaScript string is a sequence of one-token strings (" " is the      *)
(* whitespace token, "," the comma).  A JSON value is a record [t, v]      *)
(* whose v is always a sequence of tokens:                                 *)
(*   str   the string itself                                               *)
(*   list  the items of a list of comma-free strings, joined by ","        *)
(*   obj / arr   one token per member of the object, element of the array  *)
(*   bool / num / msg   a single token                                     *)
(*   undefined          the empty sequence                                 *)
(* An object with string keys (request body, query string) is a function   *)
(* from key names to JSON values.                                          *)
(***************************************************************************)
EXTENDS Integers, Sequences, FiniteSets, TLC

VARIABLES node, operation, continueOnFail, nItems, params, nodeParams, tokenAnswer,
          pc, itemIndex, organizationId, locals, pending, requests,
          returnData, thrown, bufferReads

vars == <<node, operation, continueOnFail, nItems, params, nodeParams, tokenAnswer,
          pc, itemIndex, organizationId, locals, pending, requests,
          returnData, thrown, bufferReads>>

(* ---------------------------- bounds ----------------------------------- *)

MaxItems == 3

(* ------------------------- JavaScript strings -------------------------- *)

EmptyStr == <<>>

RECURSIVE TrimStart(_)
TrimStart(s) ==
    IF s # <<>> /\ Head(s) = " " THEN TrimStart(Tail(s)) ELSE s

RECURSIVE TrimEnd(_)
TrimEnd(s) ==
    IF s # <<>> /\ s[Len(s)] = " " THEN TrimEnd(SubSeq(s, 1, Len(s) - 1)) ELSE s

(* faulty variant: the text is used untrimmed *)
Trim_Missing(s) == s

Trim(s) == TrimEnd(TrimStart(s))

(* s.split(','): the pieces between commas, empty pieces included *)
RECURSIVE SplitFrom(_, _, _)
SplitFrom(s, i, cur) ==
    IF i > Len(s) THEN <<cur>>
    ELSE IF s[i] = "," THEN <<cur>> \o SplitFrom(s, i + 1, <<>>)
    ELSE SplitFrom(s, i + 1, Append(cur, s[i]))

Split(s) == SplitFrom(s, 1, <<>>)

(* .map((id) => id.trim()).filter(Boolean) *)
RECURSIVE TrimFilter(_)
TrimFilter(parts) ==
    IF parts = <<>> THEN <<>>
    ELSE IF Trim(Head(parts)) = <<>> THEN TrimFilter(Tail(parts))
    ELSE <<Trim(Head(parts))>> \o TrimFilter(Tail(parts))

SplitTagIds(s) == TrimFilter(Split(s))

(* canonical token sequence of a list of comma-free strings *)
RECURSIVE JoinList(_)
JoinList(l) ==
    IF l = <<>> THEN <<>>
    ELSE IF Len(l) = 1 THEN l[1]
    ELSE l[1] \o <<",">> \o JoinList(Tail(l))

(* ----------------------------- JSON values ----------------------------- *)

Str(s) == [t |-> "str", v |-> s]
List(l) == [t |-> "list", v |-> JoinList(l)]
Obj(members) == [t |-> "obj", v |-> members]
Arr(elems) == [t |-> "arr", v |-> elems]
Bool(b) == [t |-> "bool", v |-> IF b THEN <<"true">> ELSE <<"false">>]
Num(n) == [t |-> "num", v |-> <<n>>]   \* n is the decimal text of the number
Msg(m) == [t |-> "msg", v |-> <<m>>]
Undefined == [t |-> "undefined", v |-> <<>>]

EmptyObject == <<>>

(* JSON.parse on a text of tokens: whitespace around the value is allowed; *)
(* "{" "}" is the empty object, "{" m "}" an object with the one member m, *)
(* "[" "]" the empty array, "[" e "]" an array with the one element e.     *)
(* Every other text, the empty text included, is a SyntaxError.            *)
JSONParse(text) ==
    LET s == Trim(text) IN
    IF s = <<"{", "}">> THEN [ok |-> TRUE, value |-> Obj(<<>>)]
    ELSE IF Len(s) = 3 /\ s[1] = "{" /\ s[3] = "}" /\ s[2] \notin {"{", "}", "[", "]", " ", ","}
        THEN [ok |-> TRUE, value |-> Obj(<<s[2]>>)]
    ELSE IF s = <<"[", "]">> THEN [ok |-> TRUE, value |-> Arr(<<>>)]
    ELSE IF Len(s) = 3 /\ s[1] = "[" /\ s[3] = "]" /\ s[2] \notin {"{", "}", "[", "]", " ", ","}
        THEN [ok |-> TRUE, value |-> Arr(<<s[2]>>)]
    ELSE [ok |-> FALSE, value |-> Undefined]

(* JSON.stringify of a request body drops the keys whose value is undefined *)
(* (b ranges over the one body, which is thereby evaluated once) *)
Serialize(body) ==
    CHOOSE out \in {[k \in {j \in DOMAIN b : b[j].t # "undefined"} |-> b[k]] : b \in {body}} : TRUE

(* Object.keys(x).length of a parsed JSON value *)
KeyCount(val) == Len(val.v)

(* ------------------------------- errors -------------------------------- *)

(* name is the JavaScript class, cls the class of the error taxonomy,      *)
(* hasContext tells whether the error object has a `context` property and  *)
(* itemIndex is context.itemIndex (-1 when it is not set).                 *)
NoError == [name |-> "none", cls |-> "none", message |-> "", hasContext |-> FALSE, itemIndex |-> -1]

(* new NodeOperationError(node, message): context is {} *)
NodeOperationError(cls, message) ==
    [name |-> "NodeOperationError", cls |-> cls, message |-> message,
     hasContext |-> TRUE, itemIndex |-> -1]

(* new NodeOperationError(node, message, { itemIndex }) *)
NodeOperationErrorAt(cls, message, idx) ==
    [name |-> "NodeOperationError", cls |-> cls, message |-> message,
     hasContext |-> TRUE, itemIndex |-> idx]

(* the SyntaxError thrown by JSON.parse: a plain Error without context *)
SyntaxError ==
    [name |-> "SyntaxError", cls |-> "validation", message |-> "Unexpected token",
     hasContext |-> FALSE, itemIndex |-> -1]

(* the error the HTTP helper rejects with; whether it carries a context    *)
(* property depends on the host *)
TransportError(ctx) ==
    [name |-> "TransportError", cls |-> "transport", message |-> "Request failed",
     hasContext |-> ctx, itemIndex |-> -1]

UnknownOperationMessage == "Unknown operation"
CustomApiCallMessage == "For custom API calls, use the HTTP Request node"
NoOrganizationMessage == "Could not determine organization ID from token"

(* ------------------------------ requests ------------------------------- *)

NoFields == <<>>

Req(method, url, qs, hasBody, body) ==
    [method |-> method, url |-> url, qs |-> qs, hasBody |-> hasBody,
     body |-> Serialize(body)]

NoReq == Req("NONE", <<>>, NoFields, FALSE, NoFields)

(* outcome of the synchronous part of an operation: either the request to  *)
(* issue, with what the code does with the response (post), or the error   *)
(* thrown before any request                                               *)
Send(req, post, synth) ==
    [tag |-> "request", req |-> req, post |-> post, synth |-> synth, err |-> NoError]

Fail(err) ==
    [tag |-> "error", req |-> NoReq, post |-> "none", synth |-> NoFields, err |-> err]

(* faulty variant: the path names a fixed organization *)
OrgUrl_FixedOrg(org, rest) == <<"/v0/orgs/">> \o <<"o1">> \o rest

OrgUrl(org, rest) == <<"/v0/orgs/">> \o org \o rest

LookupReq ==
    Req("GET", <<"/v0/account/token/organization">>,
        "token" :> Msg("apiToken"), FALSE, NoFields)

(* the remote's JSON answer, as the HTTP helper returns it: an object or   *)
(* nothing (undefined) *)
RemoteJson == "remote" :> Msg("payload")
Responses == {[defined |-> TRUE, json |-> RemoteJson], [defined |-> FALSE, json |-> NoFields]}

(* ----------------------------- sample inputs --------------------------- *)

Ids == {<<"x">>, <<"y">>}
JsonBad == Str(<<"{", "bad">>)
JsonKV == Str(<<"{", "k:v", "}">>)
JsonEmptyText == Str(<<>>)
JsonEmptyObject == Obj(<<>>)
TagsAB == <<"a", ",", " ", "b">>
TagsABC == <<"a", ",", " ", "b", " ", ",", "c">>
TagsNone == <<",">>

NoParams == [unused |-> <<>>]

NoBinary == [present |-> FALSE, fileName |-> <<>>]
Binary(fileName) == [present |-> TRUE, fileName |-> fileName]

(* --------------------------- DocRouterDocument ------------------------- *)

DocumentUploadParams ==
    { [binaryPropertyName |-> <<"data">>, binary |-> NoBinary, documentName |-> <<>>,
       tagIds |-> <<>>, metadata |-> JsonEmptyObject],
      [binaryPropertyName |-> <<"data">>, binary |-> Binary(<<"f">>), documentName |-> <<>>,
       tagIds |-> <<>>, metadata |-> JsonEmptyObject],
      [binaryPropertyName |-> <<"data">>, binary |-> Binary(<<>>), documentName |-> <<" ", "n">>,
       tagIds |-> TagsABC, metadata |-> JsonKV],
      [binaryPropertyName |-> <<"data">>, binary |-> Binary(<<"f">>), documentName |-> <<>>,
       tagIds |-> TagsNone, metadata |-> JsonEmptyText],
      [binaryPropertyName |-> <<"data">>, binary |-> Binary(<<"f">>), documentName |-> <<>>,
       tagIds |-> <<>>, metadata |-> JsonBad] }

DocumentUpdateParams ==
    { [documentId |-> <<"x">>, newDocumentName |-> <<>>, tagIds |-> <<>>, metadata |-> JsonEmptyObject],
      [documentId |-> <<"x">>, newDocumentName |-> <<"n">>, tagIds |-> <<>>, metadata |-> JsonEmptyText],
      [documentId |-> <<"y">>, newDocumentName |-> <<>>, tagIds |-> TagsAB, metadata |-> JsonKV],
      [documentId |-> <<"y">>, newDocumentName |-> <<>>, tagIds |-> TagsNone, metadata |-> JsonEmptyObject],
      [documentId |-> <<"x">>, newDocumentName |-> <<"n">>, tagIds |-> <<>>, metadata |-> JsonBad] }

DocumentParams(op) ==
    CASE op = "list" ->
            { [limit |-> "10", skip |-> "0", filterTagIds |-> <<>>, nameSearch |-> <<>>,
               metadataSearch |-> <<>>],
              [limit |-> "10", skip |-> "0", filterTagIds |-> <<"a">>, nameSearch |-> <<"n">>,
               metadataSearch |-> <<"m">>] }
      [] op = "upload" -> DocumentUploadParams
      [] op = "get" -> [documentId : Ids, fileType : {<<"original">>}]
      [] op = "update" -> DocumentUpdateParams
      [] op = "delete" -> [documentId : Ids]
      [] OTHER -> {NoParams}

DocumentList(p, org) ==
    LET qs == ("limit" :> Num(p.limit)) @@ ("skip" :> Num(p.skip))
              @@ (IF p.filterTagIds # <<>> THEN "tag_ids" :> Str(p.filterTagIds) ELSE NoFields)
              @@ (IF p.nameSearch # <<>> THEN "name_search" :> Str(p.nameSearch) ELSE NoFields)
              @@ (IF p.metadataSearch # <<>> THEN "metadata_search" :> Str(p.metadataSearch) ELSE NoFields)
    IN Send(Req("GET", OrgUrl(org, <<"/documents">>), qs, FALSE, NoFields), "passthrough", NoFields)

(* faulty variant: malformed JSON text is taken as the empty object *)
ParseOrObject_FallbackOnError(param, fallback) ==
    IF param.t = "str" /\ JSONParse(IF param.v = <<>> THEN fallback ELSE param.v).ok
    THEN JSONParse(IF param.v = <<>> THEN fallback ELSE param.v)
    ELSE [ok |-> TRUE, value |-> IF param.t = "str" THEN Obj(<<>>) ELSE param]

(* the metadata parameter: JSON text is parsed ('{}' when empty), an       *)
(* object is taken as it is *)
ParseOrObject(param, fallback) ==
    IF param.t = "str"
    THEN JSONParse(IF param.v = <<>> THEN fallback ELSE param.v)
    ELSE [ok |-> TRUE, value |-> param]

(* the body is { documents: [ { name, content, tag_ids, metadata } ] };    *)
(* the keys below are those of its single document entry *)
UploadBody(documentNameParam, binaryData, tagIdsParam, metadata) ==
    LET documentName ==
            IF Trim(documentNameParam) # <<>> THEN Trim(documentNameParam)
            ELSE IF binaryData.fileName # <<>> THEN binaryData.fileName
            ELSE <<"document">>
        tagIds == IF tagIdsParam # <<>> THEN SplitTagIds(tagIdsParam) ELSE <<>>
    IN ("name" :> Str(documentName)) @@ ("content" :> Msg("base64"))
       @@ ("tag_ids" :> (IF Len(tagIds) # 0 THEN List(tagIds) ELSE Undefined))
       @@ ("metadata" :> (IF KeyCount(metadata) # 0 THEN metadata ELSE Undefined))

DocumentUpload(p, org, idx) ==
    IF ~p.binary.present
    THEN Fail(NodeOperationErrorAt("missingInput", "No binary data found", idx))
    ELSE LET parsed == ParseOrObject(p.metadata, <<"{", "}">>) IN
         IF ~parsed.ok THEN Fail(SyntaxError)
         ELSE Send(Req("POST", OrgUrl(org, <<"/documents">>), NoFields, TRUE,
                       UploadBody(p.documentName, p.binary, p.tagIds, parsed.value)),
                   "passthrough", NoFields)

DocumentGet(p, org) ==
    Send(Req("GET", OrgUrl(org, <<"/documents/">> \o p.documentId),
             "file_type" :> Str(p.fileType), FALSE, NoFields), "passthrough", NoFields)

(* faulty variant: update leaves tag_ids out when the text holds no token *)
DocumentUpdateBody_OmitsEmptyTags(p, metadata) ==
    (IF p.newDocumentName # <<>> THEN "document_name" :> Str(p.newDocumentName) ELSE NoFields)
    @@ (IF Len(SplitTagIds(p.tagIds)) # 0 THEN "tag_ids" :> List(SplitTagIds(p.tagIds)) ELSE NoFields)
    @@ (IF KeyCount(metadata) > 0 THEN "metadata" :> metadata ELSE NoFields)

DocumentUpdateBody(p, metadata) ==
    (IF p.newDocumentName # <<>> THEN "document_name" :> Str(p.newDocumentName) ELSE NoFields)
    @@ (IF p.tagIds # <<>> THEN "tag_ids" :> List(SplitTagIds(p.tagIds)) ELSE NoFields)
    @@ (IF KeyCount(metadata) > 0 THEN "metadata" :> metadata ELSE NoFields)

(* `if (metadataParam)`: an object and a non-empty text are truthy *)
DocumentUpdate(p, org) ==
    LET truthy == p.metadata.t # "str" \/ p.metadata.v # <<>>
        parsed == IF truthy THEN ParseOrObject(p.metadata, <<"{", "}">>)
                  ELSE [ok |-> TRUE, value |-> Obj(<<>>)]
    IN IF ~parsed.ok THEN Fail(SyntaxError)
       ELSE Send(Req("PUT", OrgUrl(org, <<"/documents/">> \o p.documentId), NoFields, TRUE,
                     DocumentUpdateBody(p, parsed.value)),
                 "defaultSuccess", NoFields)

DocumentDelete(p, org) ==
    Send(Req("DELETE", OrgUrl(org, <<"/documents/">> \o p.documentId), NoFields, FALSE, NoFields),
         "synth", ("success" :> Bool(TRUE)) @@ ("documentId" :> Str(p.documentId)))

(* faulty variant: an unknown operation falls through to the listing request *)
DocumentItem_NoDefault(op, p, org, idx) ==
    CASE op = "upload" -> DocumentUpload(p, org, idx)
      [] op = "get" -> DocumentGet(p, org)
      [] op = "update" -> DocumentUpdate(p, org)
      [] op = "delete" -> DocumentDelete(p, org)
      [] OTHER -> Send(Req("GET", OrgUrl(org, <<"/documents">>), NoFields, FALSE, NoFields),
                       "passthrough", NoFields)

DocumentItem(op, p, org, idx) ==
    CASE op = "upload" -> DocumentUpload(p, org, idx)
      [] op = "get" -> DocumentGet(p, org)
      [] op = "update" -> DocumentUpdate(p, org)
      [] op = "delete" -> DocumentDelete(p, org)
      [] OTHER -> Fail(NodeOperationError("unsupported", UnknownOperationMessage))

(* ----------------------------- DocRouterTag ---------------------------- *)

TagFieldParams ==
    { [tagId |-> <<"x">>, tagName |-> <<"t">>, color |-> <<>>, description |-> <<>>],
      [tagId |-> <<"y">>, tagName |-> <<" ", "t">>, color |-> <<"c", " ">>, description |-> <<"d">>],
      [tagId |-> <<"x">>, tagName |-> <<>>, color |-> <<" ">>, description |-> <<>>] }

TagParams(op) ==
    CASE op = "list" -> [limit : {"10"}, skip : {"0"}, nameSearch : {<<>>, <<" ", "s">>}]
      [] op = "get" -> [tagId : Ids]
      [] op = "create" -> TagFieldParams
      [] op = "update" -> TagFieldParams
      [] op = "delete" -> [tagId : Ids]
      [] OTHER -> {NoParams}

TagList(p, org) ==
    LET qs == ("limit" :> Num(p.limit)) @@ ("skip" :> Num(p.skip))
              @@ (IF Trim(p.nameSearch) # <<>> THEN "name_search" :> Str(Trim(p.nameSearch)) ELSE NoFields)
    IN Send(Req("GET", OrgUrl(org, <<"/tags">>), qs, FALSE, NoFields), "passthrough", NoFields)

TagBody(p) ==
    ("name" :> Str(Trim(p.tagName)))
    @@ (IF Trim(p.color) # <<>> THEN "color" :> Str(Trim(p.color)) ELSE NoFields)
    @@ (IF Trim(p.description) # <<>> THEN "description" :> Str(Trim(p.description)) ELSE NoFields)

TagItem(op, p, org) ==
    CASE op = "get" ->
            Send(Req("GET", OrgUrl(org, <<"/tags/">> \o p.tagId), NoFields, FALSE, NoFields),
                 "passthrough", NoFields)
      [] op = "create" ->
            Send(Req("POST", OrgUrl(org, <<"/tags">>), NoFields, TRUE, TagBody(p)),
                 "passthrough", NoFields)
      [] op = "update" ->
            Send(Req("PUT", OrgUrl(org, <<"/tags/">> \o p.tagId), NoFields, TRUE, TagBody(p)),
                 "passthrough", NoFields)
      [] op = "delete" ->
            Send(Req("DELETE", OrgUrl(org, <<"/tags/">> \o p.tagId), NoFields, FALSE, NoFields),
                 "synth", ("success" :> Bool(TRUE)) @@ ("tagId" :> Str(p.tagId)))
      [] OTHER -> Fail(NodeOperationError("unsupported", UnknownOperationMessage))

(* ---------------------------- DocRouterSchema -------------------------- *)

SchemaFieldParams ==
    { [schemaId |-> <<"x">>, name |-> <<"s">>, jsonSchema |-> JsonKV],
      [schemaId |-> <<"y">>, name |-> <<" ", "s">>, jsonSchema |-> JsonEmptyText],
      [schemaId |-> <<"x">>, name |-> <<>>, jsonSchema |-> Obj(<<"k:v">>)],
      [schemaId |-> <<"y">>, name |-> <<"s">>, jsonSchema |-> JsonBad] }

SchemaParams(op) ==
    CASE op = "list" -> [limit : {"10"}, skip : {"0"}, nameSearch : {<<>>, <<" ", "s">>}]
      [] op = "listVersions" -> [schemaId : Ids]
      [] op = "validate" ->
            { [schemaRevid |-> <<"x">>, validateData |-> JsonKV],
              [schemaRevid |-> <<"y">>, validateData |-> JsonEmptyText],
              [schemaRevid |-> <<"x">>, validateData |-> JsonBad] }
      [] op = "get" -> [schemaRevid : Ids]
      [] op = "create" -> SchemaFieldParams
      [] op = "update" -> SchemaFieldParams
      [] op = "delete" -> [schemaId : Ids]
      [] OTHER -> {NoParams}

(* a request whose whole body is one parsed JSON value *)
WholeBody(value) == "(body)" :> value

SchemaOnce(op, p, org) ==
    CASE op = "list" ->
            LET qs == ("limit" :> Num(p.limit)) @@ ("skip" :> Num(p.skip))
                      @@ (IF Trim(p.nameSearch) # <<>>
                          THEN "name_search" :> Str(Trim(p.nameSearch)) ELSE NoFields)
            IN Send(Req("GET", OrgUrl(org, <<"/schemas">>), qs, FALSE, NoFields),
                    "passthrough", NoFields)
      [] op = "listVersions" ->
            Send(Req("GET", OrgUrl(org, <<"/schemas/">> \o p.schemaId \o <<"/versions">>),
                     NoFields, FALSE, NoFields), "passthrough", NoFields)
      [] op = "validate" ->
            LET parsed == ParseOrObject(p.validateData, <<"{", "}">>) IN
            IF ~parsed.ok THEN Fail(SyntaxError)
            ELSE Send(Req("POST", OrgUrl(org, <<"/schemas/">> \o p.schemaRevid \o <<"/validate">>),
                          NoFields, TRUE, WholeBody(parsed.value)), "passthrough", NoFields)

SchemaBody(p, jsonSchema) ==
    ("name" :> Str(Trim(p.name))) @@ ("json_schema" :> jsonSchema)

SchemaItem(op, p, org) ==
    CASE op = "get" ->
            Send(Req("GET", OrgUrl(org, <<"/schemas/">> \o p.schemaRevid), NoFields, FALSE, NoFields),
                 "passthrough", NoFields)
      [] op = "create" ->
            LET parsed == ParseOrObject(p.jsonSchema, <<"{", "}">>) IN
            IF ~parsed.ok THEN Fail(SyntaxError)
            ELSE Send(Req("POST", OrgUrl(org, <<"/schemas">>), NoFields, TRUE,
                          SchemaBody(p, parsed.value)), "passthrough", NoFields)
      [] op = "update" ->
            LET parsed == ParseOrObject(p.jsonSchema, <<"{", "}">>) IN
            IF ~parsed.ok THEN Fail(SyntaxError)
            ELSE Send(Req("PUT", OrgUrl(org, <<"/schemas/">> \o p.schemaId), NoFields, TRUE,
                          SchemaBody(p, parsed.value)), "passthrough", NoFields)
      [] op = "delete" ->
            Send(Req("DELETE", OrgUrl(org, <<"/schemas/">> \o p.schemaId), NoFields, FALSE, NoFields),
                 "synth", ("success" :> Bool(TRUE)) @@ ("schemaId" :> Str(p.schemaId)))
      [] op = "__CUSTOM_API_CALL__" ->
            Fail(NodeOperationError("unsupported", CustomApiCallMessage))
      [] OTHER -> Fail(NodeOperationError("unsupported", UnknownOperationMessage))

(* ------------------------------ DocRouterLLM --------------------------- *)

LLMParams(op) ==
    CASE op = "run" ->
            { [documentId |-> <<"x">>, promptRevid |-> <<"r">>, force |-> FALSE],
              [documentId |-> <<"y">>, promptRevid |-> <<>>, force |-> TRUE],
              [documentId |-> <<"x">>, promptRevid |-> <<" ">>, force |-> FALSE] }
      [] op = "get" ->
            { [documentId |-> <<"x">>, promptRevid |-> <<"r">>, fallback |-> FALSE],
              [documentId |-> <<"y">>, promptRevid |-> <<>>, fallback |-> TRUE],
              [documentId |-> <<"x">>, promptRevid |-> <<" ">>, fallback |-> FALSE] }
      [] op = "update" ->
            { [documentId |-> <<"x">>, promptRevid |-> <<" ", "r">>, updatedLlmResult |-> JsonKV,
               isVerified |-> TRUE],
              [documentId |-> <<"y">>, promptRevid |-> <<" ">>, updatedLlmResult |-> JsonEmptyText,
               isVerified |-> FALSE],
              [documentId |-> <<"x">>, promptRevid |-> <<"r">>, updatedLlmResult |-> JsonBad,
               isVerified |-> FALSE],
              [documentId |-> <<"x">>, promptRevid |-> <<>>, updatedLlmResult |-> JsonBad,
               isVerified |-> FALSE] }
      [] op = "delete" ->
            { [documentId |-> <<"x">>, promptRevid |-> <<"r", " ">>],
              [documentId |-> <<"y">>, promptRevid |-> <<" ">>],
              [documentId |-> <<"y">>, promptRevid |-> <<>>] }
      [] OTHER -> [documentId : {<<"x">>}, promptRevid : {<<"r">>}]

(* faulty variant: Run and Get trim the revision ID before the default applies *)
DefaultRevid_Trimmed(promptRevid) ==
    IF Trim(promptRevid) # <<>> THEN Trim(promptRevid) ELSE <<"default">>

DefaultRevid(promptRevid) == IF promptRevid # <<>> THEN promptRevid ELSE <<"default">>

LLMItem(op, p, org, idx) ==
    CASE op = "run" ->
            Send(Req("POST", OrgUrl(org, <<"/llm/run/">> \o p.documentId),
                     ("prompt_revid" :> Str(DefaultRevid(p.promptRevid))) @@ ("force" :> Bool(p.force)),
                     FALSE, NoFields), "passthrough", NoFields)
      [] op = "get" ->
            Send(Req("GET", OrgUrl(org, <<"/llm/result/">> \o p.documentId),
                     ("prompt_revid" :> Str(DefaultRevid(p.promptRevid)))
                     @@ ("fallback" :> Bool(p.fallback)),
                     FALSE, NoFields), "passthrough", NoFields)
      [] op = "update" ->
            LET parsed == ParseOrObject(p.updatedLlmResult, <<"{", "}">>) IN
            IF ~parsed.ok THEN Fail(SyntaxError)
            ELSE IF Trim(p.promptRevid) = <<>>
            THEN Fail(NodeOperationErrorAt("validation", "Prompt Revision ID is required for Update.", idx))
            ELSE Send(Req("PUT", OrgUrl(org, <<"/llm/result/">> \o p.documentId),
                          "prompt_revid" :> Str(Trim(p.promptRevid)), TRUE,
                          ("updated_llm_result" :> parsed.value)
                          @@ ("is_verified" :> Bool(p.isVerified))),
                      "passthrough", NoFields)
      [] op = "delete" ->
            IF Trim(p.promptRevid) = <<>>
            THEN Fail(NodeOperationErrorAt("validation", "Prompt Revision ID is required for Delete.", idx))
            ELSE Send(Req("DELETE", OrgUrl(org, <<"/llm/result/">> \o p.documentId),
                          "prompt_revid" :> Str(Trim(p.promptRevid)), FALSE, NoFields),
                      "synth", ("success" :> Bool(TRUE)) @@ ("documentId" :> Str(p.documentId))
                               @@ ("promptRevid" :> Str(Trim(p.promptRevid))))
      [] op = "__CUSTOM_API_CALL__" ->
            Fail(NodeOperationError("unsupported", CustomApiCallMessage))
      [] OTHER -> Fail(NodeOperationError("unsupported", UnknownOperationMessage))

(* ------------------------- DocRouterKnowledgeBase ---------------------- *)

NoInterval == -1   \* reconcileIntervalSeconds left undefined

KBFieldParams ==
    { [kbId |-> <<"x">>, name |-> <<"k">>, description |-> <<>>, tagIds |-> <<>>,
       chunkerType |-> <<"recursive">>, chunkSize |-> "512", chunkOverlap |-> "128",
       embeddingModel |-> <<>>, coalesceNeighbors |-> "0",
       reconcileEnabled |-> FALSE, reconcileIntervalSeconds |-> NoInterval],
      [kbId |-> <<"y">>, name |-> <<" ", "k">>, description |-> <<"d", " ">>, tagIds |-> TagsABC,
       chunkerType |-> <<" ">>, chunkSize |-> "512", chunkOverlap |-> "128",
       embeddingModel |-> <<"e">>, coalesceNeighbors |-> "0",
       reconcileEnabled |-> TRUE, reconcileIntervalSeconds |-> 120],
      [kbId |-> <<"x">>, name |-> <<>>, description |-> <<" ">>, tagIds |-> TagsNone,
       chunkerType |-> <<"recursive">>, chunkSize |-> "512", chunkOverlap |-> "128",
       embeddingModel |-> <<"e">>, coalesceNeighbors |-> "0",
       reconcileEnabled |-> TRUE, reconcileIntervalSeconds |-> 30] }

KBParams(op) ==
    CASE op = "list" -> [limit : {"10"}, skip : {"0"}, nameSearch : {<<>>, <<" ", "s">>}]
      [] op = "listDocuments" -> [kbId : Ids, listLimit : {"10"}, listSkip : {"0"}]
      [] op = "listChunks" ->
            [kbId : Ids, documentId : {<<"d">>}, chunksLimit : {"100"}, chunksSkip : {"0"}]
      [] op = "search" ->
            [kbId : {<<"x">>}, searchQuery : {<<" ", "q">>}, topK : {"5"}, searchSkip : {"0"},
             metadataFilter : {JsonEmptyText, JsonKV, JsonBad}]
      [] op = "chat" ->
            { [kbId |-> <<"x">>, chatModel |-> <<"gpt", " ">>, messages |-> Str(<<"[", "m", "]">>),
               temperature |-> "0.7", stream |-> TRUE, chatMetadataFilter |-> JsonEmptyText],
              [kbId |-> <<"y">>, chatModel |-> <<"gpt">>, messages |-> JsonEmptyText,
               temperature |-> "0.7", stream |-> FALSE, chatMetadataFilter |-> JsonKV],
              [kbId |-> <<"x">>, chatModel |-> <<"gpt">>, messages |-> JsonBad,
               temperature |-> "0.7", stream |-> TRUE, chatMetadataFilter |-> JsonEmptyText] }
      [] op = "reconcile" ->
            {[kbId |-> <<"x">>, dryRun |-> FALSE], [kbId |-> <<"y">>, dryRun |-> TRUE]}
      [] op = "reconcileAll" -> [dryRun : BOOLEAN]
      [] op = "get" -> [kbId : Ids]
      [] op = "create" -> KBFieldParams
      [] op = "update" -> KBFieldParams
      [] op = "delete" -> [kbId : Ids]
      [] OTHER -> {NoParams}

(* this.getNode().parameters: the raw parameters stored on the node *)
KBNodeParams(op) ==
    CASE op = "search" -> {NoFields, "coalesceNeighborsSearch" :> Num("2")}
      [] op = "chat" -> {NoFields, "maxTokens" :> Num("100")}
      [] OTHER -> {NoFields}

KBUrl(org, rest) == OrgUrl(org, <<"/knowledge-bases">> \o rest)

KBOnce(op, p, np, org) ==
    CASE op = "list" ->
            LET qs == ("limit" :> Num(p.limit)) @@ ("skip" :> Num(p.skip))
                      @@ (IF Trim(p.nameSearch) # <<>>
                          THEN "name_search" :> Str(Trim(p.nameSearch)) ELSE NoFields)
            IN Send(Req("GET", KBUrl(org, <<>>), qs, FALSE, NoFields), "passthrough", NoFields)
      [] op = "listDocuments" ->
            Send(Req("GET", KBUrl(org, <<"/">> \o p.kbId \o <<"/documents">>),
                     ("limit" :> Num(p.listLimit)) @@ ("skip" :> Num(p.listSkip)), FALSE, NoFields),
                 "passthrough", NoFields)
      [] op = "listChunks" ->
            Send(Req("GET", KBUrl(org, <<"/">> \o p.kbId \o <<"/documents/">> \o p.documentId
                                       \o <<"/chunks">>),
                     ("limit" :> Num(p.chunksLimit)) @@ ("skip" :> Num(p.chunksSkip)), FALSE, NoFields),
                 "passthrough", NoFields)
      [] op = "search" ->
            LET parsed == ParseOrObject(p.metadataFilter, <<"{", "}">>) IN
            IF ~parsed.ok THEN Fail(SyntaxError)
            ELSE Send(Req("POST", KBUrl(org, <<"/">> \o p.kbId \o <<"/search">>), NoFields, TRUE,
                          ("query" :> Str(Trim(p.searchQuery))) @@ ("top_k" :> Num(p.topK))
                          @@ ("skip" :> Num(p.searchSkip))
                          @@ (IF KeyCount(parsed.value) > 0
                              THEN "metadata_filter" :> parsed.value ELSE NoFields)
                          @@ (IF "coalesceNeighborsSearch" \in DOMAIN np
                              THEN "coalesce_neighbors" :> np["coalesceNeighborsSearch"]
                              ELSE NoFields)),
                      "passthrough", NoFields)
      [] op = "chat" ->
            LET messages == ParseOrObject(p.messages, <<"[", "]">>)
                filter == ParseOrObject(p.chatMetadataFilter, <<"{", "}">>)
            IN IF ~messages.ok \/ ~filter.ok THEN Fail(SyntaxError)
               ELSE Send(Req("POST", KBUrl(org, <<"/">> \o p.kbId \o <<"/chat">>), NoFields, TRUE,
                             ("model" :> Str(Trim(p.chatModel))) @@ ("messages" :> messages.value)
                             @@ ("temperature" :> Num(p.temperature)) @@ ("stream" :> Bool(p.stream))
                             @@ (IF "maxTokens" \in DOMAIN np
                                 THEN "max_tokens" :> np["maxTokens"] ELSE NoFields)
                             @@ (IF KeyCount(filter.value) > 0
                                 THEN "metadata_filter" :> filter.value ELSE NoFields)),
                         "passthrough", NoFields)
      [] op = "reconcile" ->
            Send(Req("POST", KBUrl(org, <<"/">> \o p.kbId \o <<"/reconcile">>),
                     "dry_run" :> Bool(p.dryRun), FALSE, NoFields), "passthrough", NoFields)
      [] op = "reconcileAll" ->
            Send(Req("POST", KBUrl(org, <<"/reconcile-all">>),
                     "dry_run" :> Bool(p.dryRun), FALSE, NoFields), "passthrough", NoFields)

KBTagIds(tagIdsStr) ==
    IF Trim(tagIdsStr) # <<>> THEN SplitTagIds(tagIdsStr) ELSE <<>>

KBInterval(p) ==
    IF p.reconcileEnabled /\ p.reconcileIntervalSeconds # NoInterval /\ p.reconcileIntervalSeconds >= 60
    THEN "reconcile_interval_seconds" :> Num(ToString(p.reconcileIntervalSeconds))
    ELSE NoFields

KBCreateBody(p) ==
    ("name" :> Str(Trim(p.name))) @@ ("description" :> Str(Trim(p.description)))
    @@ ("tag_ids" :> List(KBTagIds(p.tagIds)))
    @@ ("chunker_type" :> Str(IF Trim(p.chunkerType) # <<>> THEN Trim(p.chunkerType)
                               ELSE <<"recursive">>))
    @@ ("chunk_size" :> Num(p.chunkSize)) @@ ("chunk_overlap" :> Num(p.chunkOverlap))
    @@ ("embedding_model" :> Str(IF Trim(p.embeddingModel) # <<>> THEN Trim(p.embeddingModel)
                                  ELSE <<"text-embedding-3-small">>))
    @@ ("coalesce_neighbors" :> Num(p.coalesceNeighbors))
    @@ ("reconcile_enabled" :> Bool(p.reconcileEnabled))
    @@ KBInterval(p)

KBUpdateBody(p) ==
    ("name" :> Str(Trim(p.name))) @@ ("description" :> Str(Trim(p.description)))
    @@ ("tag_ids" :> List(KBTagIds(p.tagIds)))
    @@ ("coalesce_neighbors" :> Num(p.coalesceNeighbors))
    @@ ("reconcile_enabled" :> Bool(p.reconcileEnabled))
    @@ KBInterval(p)

KBItem(op, p, org) ==
    CASE op = "get" ->
            Send(Req("GET", KBUrl(org, <<"/">> \o p.kbId), NoFields, FALSE, NoFields),
                 "passthrough", NoFields)
      [] op = "create" ->
            Send(Req("POST", KBUrl(org, <<>>), NoFields, TRUE, KBCreateBody(p)),
                 "passthrough", NoFields)
      [] op = "update" ->
            Send(Req("PUT", KBUrl(org, <<"/">> \o p.kbId), NoFields, TRUE, KBUpdateBody(p)),
                 "passthrough", NoFields)
      [] op = "delete" ->
            Send(Req("DELETE", KBUrl(org, <<"/">> \o p.kbId), NoFields, FALSE, NoFields),
                 "synth", ("success" :> Bool(TRUE)) @@ ("kbId" :> Str(p.kbId)))
      [] op = "__CUSTOM_API_CALL__" ->
            Fail(NodeOperationError("unsupported", CustomApiCallMessage))
      [] OTHER -> Fail(NodeOperationError("unsupported", UnknownOperationMessage))

(* --------------------------- DocRouterAccount -------------------------- *)

AccountUpdateUserParams ==
    { [userId |-> <<"x">>, userNameUpdate |-> <<>>, passwordUpdate |-> <<>>, role |-> <<>>],
      [userId |-> <<" ", "y">>, userNameUpdate |-> <<"u", " ">>, passwordUpdate |-> <<>>, role |-> <<>>],
      [userId |-> <<"x">>, userNameUpdate |-> <<>>, passwordUpdate |-> <<"p">>, role |-> <<"admin">>] }

AccountUpdateOrganizationParams ==
    { [organizationId |-> <<"x">>, orgNameUpdate |-> <<>>, orgTypeUpdate |-> <<>>, members |-> <<>>],
      [organizationId |-> <<"y">>, orgNameUpdate |-> <<"o">>, orgTypeUpdate |-> <<"team">>,
       members |-> <<" ">>],
      [organizationId |-> <<"x">>, orgNameUpdate |-> <<>>, orgTypeUpdate |-> <<>>,
       members |-> <<"[", "m", "]", " ">>],
      [organizationId |-> <<"x">>, orgNameUpdate |-> <<>>, orgTypeUpdate |-> <<>>,
       members |-> <<"{", "bad">>] }

AccountParams(op) ==
    CASE op = "listUsers" ->
            { [limit |-> "10", skip |-> "0", organizationIdFilter |-> <<>>, searchName |-> <<" ">>],
              [limit |-> "10", skip |-> "0", organizationIdFilter |-> <<"o", " ">>,
               searchName |-> <<"s">>] }
      [] op = "getUser" -> [userId : Ids]
      [] op = "listOrganizations" ->
            { [orgLimit |-> "10", orgSkip |-> "0", orgUserId |-> <<>>, nameSearch |-> <<>>,
               memberSearch |-> <<" ">>],
              [orgLimit |-> "10", orgSkip |-> "0", orgUserId |-> <<"u">>, nameSearch |-> <<"n">>,
               memberSearch |-> <<"m", " ">>] }
      [] op = "getOrganization" -> [organizationId : Ids]
      [] op = "createUser" ->
            [email : {<<"e">>, <<>>}, userName : {<<"u", " ">>}, password : {<<"p">>}]
      [] op = "updateUser" -> AccountUpdateUserParams
      [] op = "deleteUser" -> [userId : {<<"x">>, <<" ", "y">>}]
      [] op = "createOrganization" ->
            { [orgName |-> <<"o", " ">>, orgType |-> <<>>],
              [orgName |-> <<"o">>, orgType |-> <<"team">>],
              [orgName |-> <<" ">>, orgType |-> <<>>] }
      [] op = "updateOrganization" -> AccountUpdateOrganizationParams
      [] op = "deleteOrganization" -> [organizationId : {<<"x">>, <<"y", " ">>}]
      [] OTHER -> {NoParams}

AccountNodeParams(op) ==
    CASE op = "updateUser" ->
            {NoFields, "role" :> Str(<<"user">>),
             ("emailVerified" :> Bool(FALSE)) @@ ("hasSeenTour" :> Bool(TRUE))}
      [] op = "updateOrganization" -> {NoFields, "orgTypeUpdate" :> Str(<<"individual">>)}
      [] OTHER -> {NoFields}

AccountRunOnce == {"listUsers", "listOrganizations", "getUser", "getOrganization"}

AccountOnce(op, p) ==
    CASE op = "listUsers" ->
            LET qs == ("limit" :> Num(p.limit)) @@ ("skip" :> Num(p.skip))
                      @@ (IF Trim(p.organizationIdFilter) # <<>>
                          THEN "organization_id" :> Str(Trim(p.organizationIdFilter)) ELSE NoFields)
                      @@ (IF Trim(p.searchName) # <<>>
                          THEN "search_name" :> Str(Trim(p.searchName)) ELSE NoFields)
            IN Send(Req("GET", <<"/v0/account/users">>, qs, FALSE, NoFields), "passthrough", NoFields)
      [] op = "getUser" ->
            Send(Req("GET", <<"/v0/account/users">>, "user_id" :> Str(Trim(p.userId)),
                     FALSE, NoFields), "passthrough", NoFields)
      [] op = "listOrganizations" ->
            LET qs == ("limit" :> Num(p.orgLimit)) @@ ("skip" :> Num(p.orgSkip))
                      @@ (IF Trim(p.orgUserId) # <<>>
                          THEN "user_id" :> Str(Trim(p.orgUserId)) ELSE NoFields)
                      @@ (IF Trim(p.nameSearch) # <<>>
                          THEN "name_search" :> Str(Trim(p.nameSearch)) ELSE NoFields)
                      @@ (IF Trim(p.memberSearch) # <<>>
                          THEN "member_search" :> Str(Trim(p.memberSearch)) ELSE NoFields)
            IN Send(Req("GET", <<"/v0/account/organizations">>, qs, FALSE, NoFields),
                    "passthrough", NoFields)
      [] op = "getOrganization" ->
            Send(Req("GET", <<"/v0/account/organizations">>,
                     "organization_id" :> Str(Trim(p.organizationId)), FALSE, NoFields),
                 "passthrough", NoFields)

UpdateUserBody(p, np) ==
    (IF p.userNameUpdate # <<>> THEN "name" :> Str(Trim(p.userNameUpdate)) ELSE NoFields)
    @@ (IF p.passwordUpdate # <<>> THEN "password" :> Str(p.passwordUpdate) ELSE NoFields)
    @@ (IF "role" \in DOMAIN np
        THEN "role" :> (IF p.role # <<>> THEN Str(p.role) ELSE np["role"]) ELSE NoFields)
    @@ (IF "emailVerified" \in DOMAIN np THEN "email_verified" :> np["emailVerified"] ELSE NoFields)
    @@ (IF "hasSeenTour" \in DOMAIN np THEN "has_seen_tour" :> np["hasSeenTour"] ELSE NoFields)

UpdateOrganizationBody(p, np, members) ==
    (IF p.orgNameUpdate # <<>> THEN "name" :> Str(Trim(p.orgNameUpdate)) ELSE NoFields)
    @@ (IF "orgTypeUpdate" \in DOMAIN np
        THEN "type" :> (IF p.orgTypeUpdate # <<>> THEN Str(p.orgTypeUpdate) ELSE np["orgTypeUpdate"])
        ELSE NoFields)
    @@ (IF Trim(p.members) # <<>> THEN "members" :> members ELSE NoFields)

AccountItem(op, p, np) ==
    CASE op = "createUser" ->
            Send(Req("POST", <<"/v0/account/users">>, NoFields, TRUE,
                     ("email" :> Str(Trim(p.email))) @@ ("name" :> Str(Trim(p.userName)))
                     @@ ("password" :> Str(p.password))), "passthrough", NoFields)
      [] op = "updateUser" ->
            IF DOMAIN UpdateUserBody(p, np) = {}
            THEN Fail(NodeOperationError("validation", "Provide at least one field to update"))
            ELSE Send(Req("PUT", <<"/v0/account/users/">> \o Trim(p.userId), NoFields, TRUE,
                          UpdateUserBody(p, np)), "passthrough", NoFields)
      [] op = "deleteUser" ->
            Send(Req("DELETE", <<"/v0/account/users/">> \o Trim(p.userId), NoFields, FALSE, NoFields),
                 "synth", ("success" :> Bool(TRUE)) @@ ("user_id" :> Str(Trim(p.userId))))
      [] op = "createOrganization" ->
            Send(Req("POST", <<"/v0/account/organizations">>, NoFields, TRUE,
                     ("name" :> Str(Trim(p.orgName)))
                     @@ ("type" :> Str(IF p.orgType # <<>> THEN p.orgType ELSE <<"individual">>))),
                 "passthrough", NoFields)
      [] op = "updateOrganization" ->
            LET parsed == IF Trim(p.members) # <<>> THEN JSONParse(Trim(p.members))
                          ELSE [ok |-> TRUE, value |-> Undefined]
            IN IF ~parsed.ok
               THEN Fail(NodeOperationError("validation", "Members must be a valid JSON array"))
               ELSE Send(Req("PUT", <<"/v0/account/organizations/">> \o Trim(p.organizationId),
                             NoFields, TRUE, UpdateOrganizationBody(p, np, parsed.value)),
                         "passthrough", NoFields)
      [] op = "deleteOrganization" ->
            Send(Req("DELETE", <<"/v0/account/organizations/">> \o Trim(p.organizationId),
                     NoFields, FALSE, NoFields),
                 "synth", ("success" :> Bool(TRUE))
                          @@ ("organization_id" :> Str(Trim(p.organizationId))))
      [] op = "__CUSTOM_API_CALL__" ->
            Fail(NodeOperationError("unsupported", CustomApiCallMessage))
      [] OTHER -> Fail(NodeOperationError("unsupported", UnknownOperationMessage))

(* ------------------------- DocRouter (upload only) --------------------- *)

DocRouterParams(op) ==
    CASE op = "upload" ->
            { [organizationId |-> <<"o1">>, binaryPropertyName |-> <<"data">>, binary |-> NoBinary,
               documentName |-> <<>>, tagIds |-> <<>>, metadata |-> JsonEmptyObject],
              [organizationId |-> <<"o1">>, binaryPropertyName |-> <<"data">>,
               binary |-> Binary(<<"f">>), documentName |-> <<>>, tagIds |-> <<>>,
               metadata |-> JsonEmptyObject],
              [organizationId |-> <<"o2">>, binaryPropertyName |-> <<"data">>,
               binary |-> Binary(<<>>), documentName |-> <<"n">>, tagIds |-> TagsAB,
               metadata |-> JsonKV],
              [organizationId |-> <<"o1">>, binaryPropertyName |-> <<"data">>,
               binary |-> Binary(<<"f">>), documentName |-> <<>>, tagIds |-> TagsNone,
               metadata |-> JsonBad] }
      [] OTHER -> {NoParams}

(* what execute holds after its operation guard and before the loop: the   *)
(* parameters read once, at item index 0, and the credentials fetched      *)
(* right after them *)
NoLocals ==
    [organizationId |-> <<>>, binaryPropertyName |-> <<>>, documentNameParam |-> <<>>,
     tagIdsParam |-> <<>>, metadataParam |-> Undefined, credentials |-> FALSE]

DocRouterLocals(p) ==
    [organizationId |-> p.organizationId, binaryPropertyName |-> p.binaryPropertyName,
     documentNameParam |-> p.documentName, tagIdsParam |-> p.tagIds,
     metadataParam |-> p.metadata, credentials |-> TRUE]

(* faulty variant: the parameters are evaluated again for every item *)
DocRouterItem_ReadsPerItem(loc, p, idx) ==
    IF ~p.binary.present
    THEN Fail(NodeOperationErrorAt("missingInput", "No binary data found", idx))
    ELSE LET parsed == ParseOrObject(p.metadata, <<"{", "}">>) IN
         IF ~parsed.ok THEN Fail(SyntaxError)
         ELSE Send(Req("POST", OrgUrl(p.organizationId, <<"/documents">>), NoFields, TRUE,
                       UploadBody(p.documentName, p.binary, p.tagIds, parsed.value)),
                   "passthrough", NoFields)

DocRouterItem(loc, p, idx) ==
    IF ~p.binary.present
    THEN Fail(NodeOperationErrorAt("missingInput", "No binary data found", idx))
    ELSE LET parsed == ParseOrObject(loc.metadataParam, <<"{", "}">>) IN
         IF ~parsed.ok THEN Fail(SyntaxError)
         ELSE Send(Req("POST", OrgUrl(loc.organizationId, <<"/documents">>), NoFields, TRUE,
                       UploadBody(loc.documentNameParam, p.binary, loc.tagIdsParam, parsed.value)),
                   "passthrough", NoFields)

(* ------------------------------ the nodes ------------------------------ *)

Nodes == {"Document", "Tag", "Schema", "LLM", "KnowledgeBase", "Account", "DocRouter"}

(* the nodes that exchange the token for the organization id *)
OrgNodes == {"Document", "Tag", "Schema", "LLM", "KnowledgeBase"}

DeclaredOps(n) ==
    CASE n = "Document" -> {"upload", "list", "get", "update", "delete"}
      [] n = "Tag" -> {"list", "get", "create", "update", "delete"}
      [] n = "Schema" -> {"list", "get", "create", "update", "delete", "validate", "listVersions"}
      [] n = "LLM" -> {"run", "get", "update", "delete"}
      [] n = "KnowledgeBase" ->
            {"list", "get", "create", "update", "delete", "listDocuments", "listChunks",
             "search", "chat", "reconcile", "reconcileAll"}
      [] n = "Account" ->
            {"listUsers", "getUser", "createUser", "updateUser", "deleteUser",
             "listOrganizations", "getOrganization", "createOrganization",
             "updateOrganization", "deleteOrganization"}
      [] n = "DocRouter" -> {"upload"}

UnknownOps == {"__CUSTOM_API_CALL__", "bogus"}

(* faulty variant: the Document and Tag listings are left to the item loop *)
RunOnceOps_ListInLoop(n) ==
    CASE n = "Schema" -> {"list", "listVersions", "validate"}
      [] n = "KnowledgeBase" ->
            {"list", "listDocuments", "listChunks", "search", "chat", "reconcile", "reconcileAll"}
      [] n = "Account" -> AccountRunOnce
      [] OTHER -> {}

(* the operations execute runs once, outside the item loop *)
RunOnceOps(n) ==
    CASE n = "Document" -> {"list"}
      [] n = "Tag" -> {"list"}
      [] n = "Schema" -> {"list", "listVersions", "validate"}
      [] n = "LLM" -> {}
      [] n = "KnowledgeBase" ->
            {"list", "listDocuments", "listChunks", "search", "chat", "reconcile", "reconcileAll"}
      [] n = "Account" -> AccountRunOnce
      [] n = "DocRouter" -> {}

ParamSpace(n, op) ==
    CASE n = "Document" -> DocumentParams(op)
      [] n = "Tag" -> TagParams(op)
      [] n = "Schema" -> SchemaParams(op)
      [] n = "LLM" -> LLMParams(op)
      [] n = "KnowledgeBase" -> KBParams(op)
      [] n = "Account" -> AccountParams(op)
      [] n = "DocRouter" -> DocRouterParams(op)

NodeParamSpace(n, op) ==
    CASE n = "KnowledgeBase" -> KBNodeParams(op)
      [] n = "Account" -> AccountNodeParams(op)
      [] OTHER -> {NoFields}

PrepareOnce(n, op, p, np, org) ==
    CASE n = "Document" -> DocumentList(p, org)
      [] n = "Tag" -> TagList(p, org)
      [] n = "Schema" -> SchemaOnce(op, p, org)
      [] n = "KnowledgeBase" -> KBOnce(op, p, np, org)
      [] n = "Account" -> AccountOnce(op, p)

PrepareItem(n, op, p, np, org, loc, idx) ==
    CASE n = "Document" -> DocumentItem(op, p, org, idx)
      [] n = "Tag" -> TagItem(op, p, org)
      [] n = "Schema" -> SchemaItem(op, p, org)
      [] n = "LLM" -> LLMItem(op, p, org, idx)
      [] n = "KnowledgeBase" -> KBItem(op, p, org)
      [] n = "Account" -> AccountItem(op, p, np)
      [] n = "DocRouter" -> DocRouterItem(loc, p, idx)

(* --------------------------- results and errors ------------------------ *)

(* faulty variant: every result is paired with item 0 *)
ResultEntry_PairedWithZero(json, idx) ==
    [json |-> json, pairedItem |-> 0, hasError |-> FALSE, error |-> NoError]

(* returnData.push({ json: response ?? {}, pairedItem: { item } }) *)
ResultEntry(json, idx) ==
    [json |-> json, pairedItem |-> idx, hasError |-> FALSE, error |-> NoError]

(* error instanceof NodeOperationError ? error : new NodeOperationError(node, error) *)
WrapError(err) ==
    IF err.name = "NodeOperationError" THEN err
    ELSE [err EXCEPT !.name = "NodeOperationError", !.hasContext = TRUE]

(* returnData.push({ json: { error: message }, pairedItem: { item }, error }) *)
ErrorEntry(err, idx) ==
    [json |-> "error" :> Msg(err.message), pairedItem |-> idx, hasError |-> TRUE,
     error |-> WrapError(err)]

(* faulty variant: a delete passes the remote's answer through *)
ResponseJson_PassThrough(post, synth, response) ==
    IF response.defined THEN response.json ELSE NoFields

(* what the code keeps of a response: the remote's answer, `{}` when there *)
(* is none, the synthesized payload of a delete, or `{ success: true }`    *)
(* when a Document update has no answer *)
ResponseJson(post, synth, response) ==
    CASE post = "synth" -> synth
      [] post = "defaultSuccess" ->
            IF response.defined THEN response.json ELSE "success" :> Bool(TRUE)
      [] OTHER -> IF response.defined THEN response.json ELSE NoFields

(* the item loop's catch with continue-on-failure off: the error gets the  *)
(* item index when it has a context property; the Account node's           *)
(* handleError rethrows it as it is *)
Annotate(n, err, idx) ==
    IF n # "Account" /\ err.hasContext THEN [err EXCEPT !.itemIndex = idx] ELSE err

(* ------------------------------ the state ------------------------------ *)

(* pc is the position of execute: "start", "awaitLookup" (the organization *)
(* lookup is in flight), "once" (about to run a run-once operation),       *)
(* "awaitOnce", "loop" (at the head of the item loop), "awaitItem",        *)
(* "done" (returned [returnData]) and "threw" (raised `thrown`).           *)
(* requests is the history of the HTTP requests issued so far; pending is  *)
(* the request in flight and what the code does with its response.         *)
(* bufferReads is the history of the getBinaryDataBuffer calls: the item   *)
(* indices whose attachment was read.                                      *)

NoPending == [active |-> FALSE, post |-> "none", synth |-> NoFields]

Max(a, b) == IF a >= b THEN a ELSE b

(* the parameter values evaluated for item index idx (0-based) *)
ParamsAt(idx) == params[idx + 1]

(* what the lookup endpoint answers as organization_id for the credential's *)
(* token: absent, null, empty, or an organization id *)
Null == [t |-> "null", v |-> <<>>]
LookupAnswers == {Undefined, Null, Str(<<>>), Str(<<"o1">>)}

(* the Account node uses the account-level credential, whose token maps to *)
(* no organization; the DocRouter node never asks *)
TokenAnswers(n) ==
    CASE n = "Account" -> {Undefined}
      [] n = "DocRouter" -> {Undefined, Str(<<"o1">>)}
      [] n = "Tag" -> LookupAnswers \cup {Str(<<"o2">>)}
      [] OTHER -> LookupAnswers

(* faulty variant: only a missing organization_id is rejected, an empty one passes *)
Falsy_MissingOnly(val) == val.t \in {"undefined", "null"}

(* `!organizationId` *)
Falsy(val) == val.t \in {"undefined", "null"} \/ (val.t = "str" /\ val.v = <<>>)

Issued(kind, idx, req) == [kind |-> kind, item |-> idx, req |-> req]

Init ==
    /\ node \in Nodes
    /\ operation \in DeclaredOps(node) \cup UnknownOps
    /\ continueOnFail \in BOOLEAN
    /\ nItems \in 0..MaxItems
    /\ params \in [1..Max(nItems, 1) -> ParamSpace(node, operation)]
    /\ nodeParams \in NodeParamSpace(node, operation)
    /\ tokenAnswer \in TokenAnswers(node)
    /\ pc = "start"
    /\ itemIndex = 0
    /\ organizationId = <<>>
    /\ locals = NoLocals
    /\ pending = NoPending
    /\ requests = <<>>
    /\ returnData = <<>>
    /\ thrown = NoError
    /\ bufferReads = <<>>

Inputs == <<node, operation, continueOnFail, nItems, params, nodeParams, tokenAnswer>>

(* execute up to its first await: the organization lookup in the           *)
(* organization-scoped nodes; the operation guard and the reads at index 0 *)
(* in the DocRouter node; nothing in the Account node *)
Begin ==
    /\ pc = "start"
    /\ IF node \in OrgNodes
       THEN /\ requests' = Append(requests, Issued("lookup", -1, LookupReq))
            /\ pc' = "awaitLookup"
            /\ UNCHANGED <<locals, thrown>>
       ELSE IF node = "DocRouter"
       THEN IF operation # "upload"
            THEN /\ thrown' = NodeOperationError("unsupported", UnknownOperationMessage)
                 /\ pc' = "threw"
                 /\ UNCHANGED <<locals, requests>>
            ELSE /\ locals' = DocRouterLocals(ParamsAt(0))
                 /\ pc' = "loop"
                 /\ UNCHANGED <<thrown, requests>>
       ELSE /\ pc' = IF operation \in RunOnceOps(node) THEN "once" ELSE "loop"
            /\ UNCHANGED <<locals, thrown, requests>>
    /\ UNCHANGED <<Inputs, itemIndex, organizationId, pending, returnData, bufferReads>>

(* faulty variant: with continue-on-failure a failed lookup becomes an error entry *)
LookupReturn_CaughtWhenContinuing ==
    /\ pc = "awaitLookup"
    /\ \/ \E ctx \in BOOLEAN :
             IF continueOnFail
             THEN /\ returnData' = <<ErrorEntry(TransportError(ctx), 0)>>
                  /\ pc' = "done"
                  /\ UNCHANGED <<organizationId, thrown>>
             ELSE /\ thrown' = TransportError(ctx)
                  /\ pc' = "threw"
                  /\ UNCHANGED <<organizationId, returnData>>
       \/ IF Falsy(tokenAnswer)
          THEN /\ thrown' = NodeOperationError("configuration", NoOrganizationMessage)
               /\ pc' = "threw"
               /\ UNCHANGED <<organizationId, returnData>>
          ELSE /\ organizationId' = tokenAnswer.v
               /\ pc' = IF operation \in RunOnceOps(node) THEN "once" ELSE "loop"
               /\ UNCHANGED <<thrown, returnData>>
    /\ UNCHANGED <<Inputs, itemIndex, locals, pending, requests, bufferReads>>

(* the lookup returns or fails; both failures are outside any try block *)
LookupReturn ==
    /\ pc = "awaitLookup"
    /\ \/ \E ctx \in BOOLEAN :
             /\ thrown' = TransportError(ctx)
             /\ pc' = "threw"
             /\ UNCHANGED organizationId
       \/ IF Falsy(tokenAnswer)
          THEN /\ thrown' = NodeOperationError("configuration", NoOrganizationMessage)
               /\ pc' = "threw"
               /\ UNCHANGED organizationId
          ELSE /\ organizationId' = tokenAnswer.v
               /\ pc' = IF operation \in RunOnceOps(node) THEN "once" ELSE "loop"
               /\ UNCHANGED thrown
    /\ UNCHANGED <<Inputs, itemIndex, locals, pending, requests, returnData, bufferReads>>

(* faulty variant: the catch records one error entry per input item *)
OnceCatch_EntryPerItem(err) ==
    IF continueOnFail
    THEN /\ returnData' = [k \in 1..nItems |-> ErrorEntry(err, k - 1)]
         /\ pc' = "done"
         /\ UNCHANGED thrown
    ELSE /\ thrown' = err
         /\ pc' = "threw"
         /\ UNCHANGED returnData

(* the catch of a run-once block: an error entry for index 0, or rethrow *)
OnceCatch(err) ==
    IF continueOnFail
    THEN /\ returnData' = Append(returnData, ErrorEntry(err, 0))
         /\ pc' = "done"
         /\ UNCHANGED thrown
    ELSE /\ thrown' = err
         /\ pc' = "threw"
         /\ UNCHANGED returnData

(* faulty variant: the run-once block evaluates its parameters at the last item *)
RunOnceIssue_AtLastItem ==
    /\ pc = "once"
    /\ \E r \in {PrepareOnce(node, operation, ParamsAt(Max(nItems, 1) - 1), nodeParams,
                            organizationId)} :
       IF r.tag = "request"
       THEN /\ requests' = Append(requests, Issued("resource", 0, r.req))
            /\ pending' = [active |-> TRUE, post |-> r.post, synth |-> r.synth]
            /\ pc' = "awaitOnce"
            /\ UNCHANGED <<returnData, thrown>>
       ELSE /\ OnceCatch(r.err)
            /\ UNCHANGED <<requests, pending>>
    /\ UNCHANGED <<Inputs, itemIndex, organizationId, locals, bufferReads>>

(* the run-once block up to its request *)
RunOnceIssue ==
    /\ pc = "once"
    /\ \E r \in {PrepareOnce(node, operation, ParamsAt(0), nodeParams, organizationId)} :
       IF r.tag = "request"
       THEN /\ requests' = Append(requests, Issued("resource", 0, r.req))
            /\ pending' = [active |-> TRUE, post |-> r.post, synth |-> r.synth]
            /\ pc' = "awaitOnce"
            /\ UNCHANGED <<returnData, thrown>>
       ELSE /\ OnceCatch(r.err)
            /\ UNCHANGED <<requests, pending>>
    /\ UNCHANGED <<Inputs, itemIndex, organizationId, locals, bufferReads>>

(* the run-once request returns or fails; execute returns [returnData] *)
RunOnceReturn ==
    /\ pc = "awaitOnce"
    /\ pending' = NoPending
    /\ \/ \E response \in Responses :
             /\ returnData' = Append(returnData,
                    ResultEntry(ResponseJson(pending.post, pending.synth, response), 0))
             /\ pc' = "done"
             /\ UNCHANGED thrown
       \/ \E ctx \in BOOLEAN : OnceCatch(TransportError(ctx))
    /\ UNCHANGED <<Inputs, itemIndex, organizationId, locals, requests, bufferReads>>

(* faulty variant: the catch ends the loop after recording the error *)
ItemCatch_StopsLoop(err) ==
    IF continueOnFail
    THEN /\ returnData' = Append(returnData, ErrorEntry(err, itemIndex))
         /\ itemIndex' = nItems
         /\ pc' = "loop"
         /\ UNCHANGED thrown
    ELSE /\ thrown' = Annotate(node, err, itemIndex)
         /\ pc' = "threw"
         /\ UNCHANGED <<returnData, itemIndex>>

(* faulty variant: the catch never rethrows *)
ItemCatch_NeverThrows(err) ==
    /\ returnData' = Append(returnData, ErrorEntry(err, itemIndex))
    /\ itemIndex' = itemIndex + 1
    /\ pc' = "loop"
    /\ UNCHANGED thrown

(* the catch of the item loop *)
(* faulty variant: with continue-on-failure a failed item is tried again *)
ItemCatch_Retries(err) ==
    IF continueOnFail
    THEN /\ pc' = "loop"
         /\ UNCHANGED <<returnData, itemIndex, thrown>>
    ELSE /\ thrown' = Annotate(node, err, itemIndex)
         /\ pc' = "threw"
         /\ UNCHANGED <<returnData, itemIndex>>

ItemCatch(err) ==
    IF continueOnFail
    THEN /\ returnData' = Append(returnData, ErrorEntry(err, itemIndex))
         /\ itemIndex' = itemIndex + 1
         /\ pc' = "loop"
         /\ UNCHANGED thrown
    ELSE /\ thrown' = Annotate(node, err, itemIndex)
         /\ pc' = "threw"
         /\ UNCHANGED <<returnData, itemIndex>>

(* faulty variant: the organization lookup is repeated for every item *)
ItemRequests_LookupPerItem(idx, req) ==
    <<Issued("lookup", -1, LookupReq), Issued("resource", idx, req)>>

(* faulty variant: the next item's request is issued along with this one *)
ItemRequests_FanOut(idx, req) ==
    <<Issued("resource", idx, req), Issued("resource", idx + 1, req)>>

(* faulty variant: the request is sent a second time (a retry) *)
ItemRequests_SentTwice(idx, req) ==
    <<Issued("resource", idx, req), Issued("resource", idx, req)>>

(* faulty variant: the request carries the position of the item in the batch *)
ItemRequests_PositionInQuery(idx, req) ==
    <<Issued("resource", idx, [req EXCEPT !.qs = ("position" :> Bool(idx > 0)) @@ @])>>

(* the HTTP requests one iteration issues: the operation's single request *)
ItemRequests(idx, req) == <<Issued("resource", idx, req)>>

(* faulty variant: the request is sent before the inputs are validated *)
OnItemError_AfterSend(r) ==
    /\ ItemCatch(r.err)
    /\ requests' = Append(requests, Issued("resource", itemIndex, r.req))
    /\ UNCHANGED pending

(* an error thrown by the synchronous part of an iteration goes to the     *)
(* catch; nothing has been sent for the item *)
OnItemError(r) ==
    /\ ItemCatch(r.err)
    /\ UNCHANGED <<requests, pending>>

(* faulty variant: the attachment is read before its presence is checked *)
ReadsBuffer_BeforeCheck(n, op, p) ==
    n \in {"Document", "DocRouter"} /\ op = "upload"

(* an upload calls getBinaryDataBuffer for an item once it has found the   *)
(* item's attachment, before it parses the metadata; the read of an        *)
(* attachment that is present succeeds *)
ReadsBuffer(n, op, p) ==
    n \in {"Document", "DocRouter"} /\ op = "upload" /\ p.binary.present

(* one iteration of the item loop up to its request *)
ItemIssue ==
    /\ pc = "loop"
    /\ itemIndex < nItems
    /\ \E r \in {PrepareItem(node, operation, ParamsAt(itemIndex), nodeParams,
                            organizationId, locals, itemIndex)} :
       IF r.tag = "request"
       THEN /\ requests' = requests \o ItemRequests(itemIndex, r.req)
            /\ pending' = [active |-> TRUE, post |-> r.post, synth |-> r.synth]
            /\ pc' = "awaitItem"
            /\ UNCHANGED <<returnData, thrown, itemIndex>>
       ELSE OnItemError(r)
    /\ bufferReads' = IF ReadsBuffer(node, operation, ParamsAt(itemIndex))
                      THEN Append(bufferReads, itemIndex) ELSE bufferReads
    /\ UNCHANGED <<Inputs, organizationId, locals>>

(* the item's request returns or fails *)
ItemReturn ==
    /\ pc = "awaitItem"
    /\ pending' = NoPending
    /\ \/ \E response \in Responses :
             /\ returnData' = Append(returnData,
                    ResultEntry(ResponseJson(pending.post, pending.synth, response), itemIndex))
             /\ itemIndex' = itemIndex + 1
             /\ pc' = "loop"
             /\ UNCHANGED thrown
       \/ \E ctx \in BOOLEAN : ItemCatch(TransportError(ctx))
    /\ UNCHANGED <<Inputs, organizationId, locals, requests, bufferReads>>

(* the loop is over: return [returnData] *)
Return ==
    /\ pc = "loop"
    /\ itemIndex >= nItems
    /\ pc' = "done"
    /\ UNCHANGED <<Inputs, itemIndex, organizationId, locals, pending, requests,
                   returnData, thrown, bufferReads>>

Next ==
    \/ Begin
    \/ LookupReturn
    \/ RunOnceIssue
    \/ RunOnceReturn
    \/ ItemIssue
    \/ ItemReturn
    \/ Return

Spec == Init /\ [][Next]_vars

(* the batches in which the parameters of the items alternate between two  *)
(* values: item i + 2 carries the parameters of item i *)
FairInit == Init /\ \A i \in DOMAIN params : i > 2 => params[i] = params[i - 2]

(* execute is sequential code: a step that does not wait is taken, and     *)
(* every HTTP request in flight eventually returns or fails *)
FairSpec == FairInit /\ [][Next]_vars /\ WF_vars(Next)

TypeOK ==
    /\ pc \in {"start", "awaitLookup", "once", "awaitOnce", "loop", "awaitItem", "done", "threw"}
    /\ itemIndex \in 0..nItems
    /\ Len(returnData) <= Max(nItems, 1)

(* =============================== claims ================================ *)

PerItemOp == operation \notin RunOnceOps(node)

(* the indices in `requests` of the resource requests issued for item k *)
ResourceRequestsFor(k) ==
    {i \in DOMAIN requests : requests[i].kind = "resource" /\ requests[i].item = k}

Lookups == {i \in DOMAIN requests : requests[i].kind = "lookup"}

(* the lookup's answer carries no organization id: absent, null or empty *)
NoOrganizationId(val) ==
    val = Undefined \/ val = Null \/ val = Str(<<>>)

(* the requests to a /v0/orgs/{org}/... endpoint *)
OrgResourceRequests ==
    {i \in DOMAIN requests : requests[i].kind = "resource" /\ requests[i].req.url[1] = "/v0/orgs/"}

OneResultAtZero == Len(returnData) = 1 /\ returnData[1].pairedItem = 0

OneResultPerItem ==
    /\ Len(returnData) = nItems
    /\ \A k \in 1..Len(returnData) : returnData[k].pairedItem = k - 1

(* what item k's synchronous part yields: its request or its error *)
Prepared(k) ==
    PrepareItem(node, operation, ParamsAt(k), nodeParams, organizationId, locals, k)

(* --------------------------------- C1 ---------------------------------- *)

(* the operations the claim counts as batch-level: every list, search,     *)
(* chat and reconcile operation *)
ClaimedBatchLevel ==
    {"list", "listUsers", "listOrganizations", "listDocuments", "listChunks", "listVersions",
     "search", "chat", "reconcile", "reconcileAll"}

(* C1 as stated: when execute returns, a list/search/chat/reconcile        *)
(* operation has exactly one result tagged index 0, and every other        *)
(* operation (every get and Schema validate included) has one result per   *)
(* input item, the k-th tagged k. *)
C1_AsStated ==
    pc = "done" =>
        IF operation \in ClaimedBatchLevel THEN OneResultAtZero ELSE OneResultPerItem

(* C1 amended: when execute returns, an operation the node runs once       *)
(* (list, listVersions, validate, listDocuments, listChunks, search, chat, *)
(* reconcile, reconcileAll, listUsers, listOrganizations, getUser,         *)
(* getOrganization) has exactly one result tagged index 0 for every N, and *)
(* every other operation has N results, the k-th tagged with index k. *)
C1_ResultPositions ==
    pc = "done" =>
        IF operation \in RunOnceOps(node) THEN OneResultAtZero ELSE OneResultPerItem

C1_Witness ==
    /\ pc = "done" /\ node = "Account" /\ operation = "getUser"
    /\ nItems = 3 /\ OneResultAtZero

(* --------------------------------- C2 ---------------------------------- *)

(* C2: in an organization-scoped node the organization lookup is issued    *)
(* exactly once, as the first request of the execution, whatever the       *)
(* operation, the number of items and the failures of the items. *)
C2_LookupOnce ==
    node \in OrgNodes =>
        /\ Cardinality(Lookups) = IF pc = "start" THEN 0 ELSE 1
        /\ requests # <<>> => requests[1].kind = "lookup"

C2_Witness ==
    /\ node \in OrgNodes /\ pc = "done" /\ nItems = 3 /\ continueOnFail
    /\ Len(requests) = 3
    /\ \E k \in DOMAIN returnData : returnData[k].hasError /\ returnData[k].error.cls = "transport"
    /\ \E k \in DOMAIN returnData : returnData[k].hasError /\ returnData[k].error.cls = "validation"

(* --------------------------------- C3 ---------------------------------- *)

(* C3 as stated: with a credential whose lookup answers without an         *)
(* organization id, no node ever issues a request to a /v0/orgs/{org}/     *)
(* endpoint. *)
C3_AsStated ==
    NoOrganizationId(tokenAnswer) => OrgResourceRequests = {}

(* C3 amended: in the nodes that perform the lookup (Document, Tag,        *)
(* Schema, LLM, KnowledgeBase), when the lookup succeeds without an        *)
(* organization id execute fails with a configuration error and no         *)
(* resource request is issued. *)
C3_NoOrganizationNoRequest ==
    (node \in OrgNodes /\ NoOrganizationId(tokenAnswer)) =>
        /\ OrgResourceRequests = {}
        /\ pc \in {"start", "awaitLookup", "threw"}
        /\ (pc = "threw" /\ thrown.cls # "transport") => thrown.cls = "configuration"

C3_Witness ==
    /\ node \in OrgNodes /\ tokenAnswer = Str(<<>>) /\ nItems = 3
    /\ pc = "threw" /\ thrown.cls = "configuration" /\ Len(requests) = 1

(* --------------------------------- C4 ---------------------------------- *)

(* C4: with continue-on-failure on and a per-item operation, the returned  *)
(* list has one entry per item at its own index; the entry of an item that *)
(* failed (in validation or in transport) carries json.error with the      *)
(* message and the error object, every item that passes validation has had *)
(* its request issued, and the entry of an item that did not fail is a     *)
(* normal result. *)
C4_ErrorEntryInPlace ==
    (continueOnFail /\ PerItemOp /\ pc = "done") =>
        /\ OneResultPerItem
        /\ \A k \in 0..(nItems - 1) :
              LET e == returnData[k + 1]
                  sent == ResourceRequestsFor(k)
                  r == Prepared(k)
              IN /\ e.hasError =>
                        /\ DOMAIN e.json = {"error"}
                        /\ e.json["error"] = Msg(e.error.message)
                        /\ e.error.name = "NodeOperationError"
                 /\ ~e.hasError => (e.error = NoError /\ "error" \notin DOMAIN e.json)
                 /\ IF r.tag = "error"
                    THEN e.hasError /\ e.error.cls = r.err.cls /\ sent = {}
                    ELSE /\ \E i \in sent : requests[i].req = r.req
                         /\ e.hasError => e.error.cls = "transport"

C4_Witness ==
    /\ continueOnFail /\ PerItemOp /\ pc = "done" /\ nItems = 3
    /\ ~returnData[1].hasError /\ returnData[2].hasError /\ ~returnData[3].hasError
    /\ returnData[2].error.cls = "validation"
    /\ ResourceRequestsFor(0) # {} /\ ResourceRequestsFor(2) # {}

(* --------------------------------- C5 ---------------------------------- *)

(* C5: with continue-on-failure off and a per-item operation, no error     *)
(* entry is ever recorded, and when execute raises at item k the items     *)
(* before k all succeeded and no request has been issued for an item after *)
(* k. *)
C5_AbortOnFirstFailure ==
    (~continueOnFail /\ PerItemOp) =>
        /\ \A k \in DOMAIN returnData : ~returnData[k].hasError
        /\ pc = "threw" =>
              /\ thrown # NoError
              /\ Len(returnData) = itemIndex
              /\ \A i \in DOMAIN requests : requests[i].item <= itemIndex

C5_Witness ==
    /\ ~continueOnFail /\ PerItemOp /\ pc = "threw" /\ nItems = 3
    /\ itemIndex = 1 /\ Len(returnData) = 1
    /\ thrown.cls = "transport" /\ ResourceRequestsFor(2) = {}

(* --------------------------------- C6 ---------------------------------- *)

(* execute raised from inside the item loop *)
RaisedInLoop ==
    /\ pc = "threw" /\ PerItemOp
    /\ node \in OrgNodes => organizationId # <<>>
    /\ node = "DocRouter" => operation = "upload"

(* C6: with continue-on-failure off, the error raised for the failing item *)
(* k carries item index k, in every node and for every kind of error. *)
C6_AsStated ==
    (~continueOnFail /\ RaisedInLoop) => thrown.itemIndex = itemIndex

(* --------------------------------- C7 ---------------------------------- *)

ValidationClasses == {"validation", "missingInput"}

(* C7: an item (or run-once operation) that ends in a validation-class     *)
(* error has had no request of its operation sent. *)
C7_ValidationBeforeRequest ==
    /\ \A k \in DOMAIN returnData :
          (returnData[k].hasError /\ returnData[k].error.cls \in ValidationClasses)
              => ResourceRequestsFor(returnData[k].pairedItem) = {}
    /\ (pc = "threw" /\ thrown.cls \in ValidationClasses)
          => ResourceRequestsFor(itemIndex) = {}

C7_Witness ==
    /\ pc = "threw" /\ thrown.cls \in ValidationClasses /\ itemIndex = 1
    /\ ResourceRequestsFor(0) # {} /\ ResourceRequestsFor(1) = {}

(* --------------------------------- C8 ---------------------------------- *)

(* the inputs of an update that provide no updatable field *)
ZeroUpdateFields(p, np) ==
    CASE node = "Document" ->
            p.newDocumentName = <<>> /\ p.tagIds = <<>> /\ p.metadata \in {JsonEmptyObject, JsonEmptyText}
      [] node = "Account" /\ operation = "updateUser" ->
            p.userNameUpdate = <<>> /\ p.passwordUpdate = <<>> /\ DOMAIN np = {}
      [] node = "Account" /\ operation = "updateOrganization" ->
            p.orgNameUpdate = <<>> /\ p.members = <<>> /\ DOMAIN np = {}
      [] OTHER -> FALSE

(* C8: an update that provides no updatable field issues no PUT. *)
C8_AsStated ==
    \A i \in DOMAIN requests :
        requests[i].req.method = "PUT" => ~ZeroUpdateFields(ParamsAt(requests[i].item), nodeParams)

(* --------------------------------- C9 ---------------------------------- *)

(* null, an empty string or an empty list *)
EmptyValue(val) ==
    val.t \in {"null", "undefined"} \/ (val.t \in {"str", "list"} /\ val.v = <<>>)

(* C9: no PUT body carries a field whose value is null, an empty string or *)
(* an empty list. *)
C9_AsStated ==
    \A i \in DOMAIN requests :
        requests[i].req.method = "PUT" =>
            \A key \in DOMAIN requests[i].req.body : ~EmptyValue(requests[i].req.body[key])

(* --------------------------------- C10 --------------------------------- *)

CreateOps == {"create", "upload", "createUser", "createOrganization"}

(* the required fields of a create are present (non-empty after trim) *)
RequiredProvided(p) ==
    CASE node = "Tag" -> Trim(p.tagName) # <<>>
      [] node = "Schema" -> Trim(p.name) # <<>>
      [] node = "KnowledgeBase" -> Trim(p.name) # <<>>
      [] operation = "createUser" ->
            Trim(p.email) # <<>> /\ Trim(p.userName) # <<>> /\ p.password # <<>>
      [] operation = "createOrganization" -> Trim(p.orgName) # <<>>
      [] OTHER -> TRUE

(* C10: the body of a create or upload with valid required inputs carries  *)
(* no key whose value is null, an empty string or an empty list. *)
C10_AsStated ==
    operation \in CreateOps =>
        \A i \in DOMAIN requests :
            (requests[i].req.method = "POST" /\ RequiredProvided(ParamsAt(requests[i].item))) =>
                \A key \in DOMAIN requests[i].req.body : ~EmptyValue(requests[i].req.body[key])

(* --------------------------------- C11 --------------------------------- *)

(* the trimmed, non-empty tokens of a comma-separated text, in input order *)
RECURSIVE TokensOf(_)
TokensOf(s) ==
    LET commas == {i \in DOMAIN s : s[i] = ","} IN
    IF commas = {}
    THEN IF Trim(s) = <<>> THEN <<>> ELSE <<Trim(s)>>
    ELSE LET c == CHOOSE i \in commas : \A j \in commas : i <= j
             first == Trim(SubSeq(s, 1, c - 1))
         IN (IF first = <<>> THEN <<>> ELSE <<first>>) \o TokensOf(SubSeq(s, c + 1, Len(s)))

(* the tagIds parameter request i was built from; the DocRouter node reads *)
(* it once, at item index 0 *)
TagIdsInput(i) ==
    IF node = "DocRouter" THEN ParamsAt(0).tagIds ELSE ParamsAt(requests[i].item).tagIds

(* C11: a body built from a comma-separated tagIds input carries as        *)
(* tag_ids the list of its trimmed non-empty tokens in input order, and a  *)
(* create or upload whose input yields no token carries no tag_ids key. *)
C11_AsStated ==
    /\ (node \in {"Document", "KnowledgeBase", "DocRouter"} /\ operation \in {"upload", "create"}) =>
          \A i \in DOMAIN requests :
              requests[i].req.method = "POST" =>
                  LET toks == TokensOf(TagIdsInput(i))
                      body == requests[i].req.body
                  IN IF toks = <<>> THEN "tag_ids" \notin DOMAIN body
                     ELSE "tag_ids" \in DOMAIN body /\ body["tag_ids"] = List(toks)
    /\ (node \in {"Document", "KnowledgeBase"} /\ operation = "update") =>
          \A i \in DOMAIN requests :
              (requests[i].req.method = "PUT" /\ "tag_ids" \in DOMAIN requests[i].req.body) =>
                  requests[i].req.body["tag_ids"] = List(TokensOf(TagIdsInput(i)))

(* --------------------------------- C12 --------------------------------- *)

(* a JSON parameter given as text that is not JSON *)
Malformed(param) == param.t = "str" /\ param.v # <<>> /\ ~JSONParse(param.v).ok

(* the free-form JSON fields read for item k hold malformed JSON text *)
MalformedAt(k) ==
    LET p == ParamsAt(k) IN
    CASE node = "Document" /\ operation \in {"upload", "update"} -> Malformed(p.metadata)
      [] node = "DocRouter" /\ operation = "upload" -> Malformed(ParamsAt(0).metadata)
      [] node = "Schema" /\ operation \in {"create", "update"} -> Malformed(p.jsonSchema)
      [] node = "Schema" /\ operation = "validate" -> Malformed(p.validateData)
      [] node = "LLM" /\ operation = "update" -> Malformed(p.updatedLlmResult)
      [] node = "KnowledgeBase" /\ operation = "search" -> Malformed(p.metadataFilter)
      [] node = "KnowledgeBase" /\ operation = "chat" ->
            Malformed(p.messages) \/ Malformed(p.chatMetadataFilter)
      [] node = "Account" /\ operation = "updateOrganization" -> Malformed(Str(Trim(p.members)))
      [] OTHER -> FALSE

(* the item positions of the execution: every item, or position 0 of an    *)
(* operation run once *)
Positions == IF PerItemOp THEN 0..(nItems - 1) ELSE {0}

(* execute got past the organization lookup and the operation guard *)
PastSetup ==
    /\ node \in OrgNodes => organizationId # <<>>
    /\ node = "DocRouter" => operation = "upload"

(* position k has been dealt with: its entry is recorded or execute raised at it *)
Processed(k) ==
    PastSetup /\ (Len(returnData) > k \/ (pc = "threw" /\ itemIndex = k))

(* position k ended in an error of one of the classes *)
FailedAt(k, classes) ==
    IF Len(returnData) > k
    THEN returnData[k + 1].hasError /\ returnData[k + 1].error.cls \in classes
    ELSE pc = "threw" /\ itemIndex = k /\ thrown.cls \in classes

(* C12 as stated: an item (or run-once operation) whose JSON field holds   *)
(* malformed text fails with a validation error and the execution has      *)
(* issued no request at all. *)
C12_AsStated ==
    \A k \in Positions :
        (MalformedAt(k) /\ Processed(k)) => (FailedAt(k, {"validation"}) /\ requests = <<>>)

(* C12 amended: an item (or run-once operation) whose JSON field holds     *)
(* malformed text fails with a validation-class error and no request of    *)
(* that item's operation is issued. *)
C12_MalformedJsonNoItemRequest ==
    \A k \in Positions :
        (MalformedAt(k) /\ Processed(k)) =>
            (FailedAt(k, ValidationClasses) /\ ResourceRequestsFor(k) = {})

C12_Witness ==
    /\ node = "Schema" /\ operation = "create" /\ continueOnFail /\ nItems = 3 /\ pc = "done"
    /\ MalformedAt(1) /\ ~MalformedAt(0) /\ ~MalformedAt(2)
    /\ FailedAt(1, {"validation"}) /\ ResourceRequestsFor(1) = {}
    /\ ResourceRequestsFor(0) # {} /\ ResourceRequestsFor(2) # {}

(* --------------------------------- C13 --------------------------------- *)

DeleteOps == {"delete", "deleteUser", "deleteOrganization"}

(* the identifier parameter of a delete and the payload key named after it *)
IdParam(p) ==
    CASE node \in {"Document", "LLM"} -> p.documentId
      [] node = "Tag" -> p.tagId
      [] node = "Schema" -> p.schemaId
      [] node = "KnowledgeBase" -> p.kbId
      [] operation = "deleteUser" -> p.userId
      [] operation = "deleteOrganization" -> p.organizationId

EntityIdKey ==
    CASE node \in {"Document", "LLM"} -> "documentId"
      [] node = "Tag" -> "tagId"
      [] node = "Schema" -> "schemaId"
      [] node = "KnowledgeBase" -> "kbId"
      [] operation = "deleteUser" -> "userId"
      [] operation = "deleteOrganization" -> "organizationId"
      [] OTHER -> "id"

(* the result entries of the deletes that succeeded *)
DeleteResults ==
    IF operation \in DeleteOps
    THEN {k \in DOMAIN returnData : ~returnData[k].hasError}
    ELSE {}

(* C13 as stated: the result of a successful delete carries success: true  *)
(* and, under the key <entity>Id, the identifier parameter of its item. *)
C13_AsStated ==
    \A k \in DeleteResults :
        LET j == returnData[k].json
            p == ParamsAt(returnData[k].pairedItem)
        IN /\ j # NoFields
           /\ "success" \in DOMAIN j /\ j["success"] = Bool(TRUE)
           /\ EntityIdKey \in DOMAIN j /\ j[EntityIdKey] = Str(IdParam(p))

(* the payload each node synthesizes for a delete *)
DeletePayload(p) ==
    ("success" :> Bool(TRUE))
    @@ CASE node = "LLM" ->
               ("documentId" :> Str(p.documentId)) @@ ("promptRevid" :> Str(Trim(p.promptRevid)))
         [] operation = "deleteUser" -> "user_id" :> Str(Trim(p.userId))
         [] operation = "deleteOrganization" -> "organization_id" :> Str(Trim(p.organizationId))
         [] OTHER -> EntityIdKey :> Str(IdParam(p))

(* C13 amended: the result of a successful delete is, whatever the remote  *)
(* answered, success: true with the item's identifier: under documentId,   *)
(* tagId, schemaId or kbId as given; in the LLM node with the trimmed      *)
(* promptRevid as well; in the Account node under user_id or               *)
(* organization_id and trimmed. *)
C13_DeletePayload ==
    \A k \in DeleteResults :
        returnData[k].json = DeletePayload(ParamsAt(returnData[k].pairedItem))

C13_Witness ==
    /\ node = "Account" /\ operation = "deleteUser" /\ pc = "done" /\ nItems = 2
    /\ DeleteResults = {1, 2}
    /\ ParamsAt(1).userId = <<" ", "y">>
    /\ returnData[2].json = ("success" :> Bool(TRUE)) @@ ("user_id" :> Str(<<"y">>))

(* --------------------------------- C14 --------------------------------- *)

UnknownOperation == operation \notin DeclaredOps(node)

ResourceRequests == {i \in DOMAIN requests : requests[i].kind = "resource"}

(* the organization lookup, where there is one, has succeeded *)
LookupPassed == node \in OrgNodes => organizationId # <<>>

(* C14 as stated: with an operation name outside the declared set no       *)
(* resource request is issued and execute never returns normally: it       *)
(* raises an unsupported-operation error, for every number of items and    *)
(* either continue-on-failure setting. *)
C14_AsStated ==
    UnknownOperation =>
        /\ ResourceRequests = {}
        /\ pc # "done"
        /\ (pc = "threw" /\ LookupPassed) => thrown.cls = "unsupported"

(* C14 amended: with an operation name outside the declared set no         *)
(* resource request is issued and every item fails with an                 *)
(* unsupported-operation error: execute raises it at the first item when   *)
(* continue-on-failure is off, and returns one error entry per item when   *)
(* it is on; with an empty batch the nodes whose guard is inside the item  *)
(* loop return an empty list, and the DocRouter node always raises. *)
C14_UnknownOperation ==
    UnknownOperation =>
        /\ ResourceRequests = {}
        /\ \A k \in DOMAIN returnData :
              returnData[k].hasError /\ returnData[k].error.cls = "unsupported"
        /\ (pc = "threw" /\ LookupPassed) => (thrown.cls = "unsupported" /\ itemIndex = 0)
        /\ pc = "done" =>
              /\ node # "DocRouter"
              /\ nItems = 0 \/ continueOnFail
              /\ Len(returnData) = nItems
        /\ (pc = "loop" /\ itemIndex > 0) => continueOnFail

C14_Witness ==
    /\ UnknownOperation /\ node = "Tag" /\ nItems = 3 /\ ~continueOnFail
    /\ pc = "threw" /\ thrown.cls = "unsupported" /\ Len(requests) = 1

(* --------------------------------- C15 --------------------------------- *)

(* C15: when the operation is the passthrough sentinel, the                *)
(* unsupported-operation error, raised or recorded, carries the            *)
(* distinguished message and not the generic one. *)
C15_AsStated ==
    operation = "__CUSTOM_API_CALL__" =>
        /\ (pc = "threw" /\ thrown.cls = "unsupported") => thrown.message = CustomApiCallMessage
        /\ \A k \in DOMAIN returnData :
              (returnData[k].hasError /\ returnData[k].error.cls = "unsupported") =>
                  /\ returnData[k].error.message = CustomApiCallMessage
                  /\ returnData[k].json["error"] = Msg(CustomApiCallMessage)

(* --------------------------------- C16 --------------------------------- *)

(* item k is over: its entry is recorded, or execute raised at it *)
Completed(k) == Len(returnData) > k \/ (pc = "threw" /\ itemIndex = k)

(* the requests issued and not yet returned or failed *)
InFlight == {i \in ResourceRequests : ~Completed(requests[i].item)}

(* C16: in a per-item operation at most one request is in flight, the      *)
(* requests are issued in increasing item index, and the request of an     *)
(* item is issued only when every earlier item is over. *)
C16_OneAtATime ==
    PerItemOp =>
        /\ Cardinality(InFlight) <= 1
        /\ \A i, j \in ResourceRequests : i < j => requests[i].item < requests[j].item
        /\ \A i \in ResourceRequests :
              \A k \in 0..(requests[i].item - 1) : Completed(k)
        /\ pc = "awaitItem" <=> InFlight # {}

C16_Witness ==
    /\ PerItemOp /\ nItems = 3 /\ pc = "awaitItem" /\ itemIndex = 2
    /\ Cardinality(InFlight) = 1 /\ Cardinality(ResourceRequests) = 3
    /\ Completed(0) /\ Completed(1) /\ ~Completed(2)

(* --------------------------------- C17 --------------------------------- *)

ListOps ==
    {"list", "listUsers", "listOrganizations", "listVersions", "listDocuments", "listChunks"}

(* C17 as stated: a listing over N >= 1 items returns exactly one result,  *)
(* at position 0, and the execution has called the remote exactly once. *)
C17_AsStated ==
    (operation \in ListOps /\ nItems >= 1 /\ pc = "done") =>
        (OneResultAtZero /\ Len(requests) = 1)

(* C17 amended: a listing over N >= 1 items returns exactly one result, at *)
(* position 0, and the execution has requested the listing endpoint        *)
(* exactly once, after the single organization lookup in the               *)
(* organization-scoped nodes. *)
C17_ListOnce ==
    (operation \in ListOps /\ nItems >= 1 /\ pc = "done") =>
        /\ OneResultAtZero
        /\ Cardinality(ResourceRequests) = 1
        /\ \A i \in ResourceRequests : requests[i].req.method = "GET" /\ requests[i].item = 0
        /\ Len(requests) = IF node \in OrgNodes THEN 2 ELSE 1

C17_Witness ==
    /\ node = "Document" /\ operation = "list" /\ nItems = MaxItems /\ pc = "done"
    /\ OneResultAtZero /\ ~returnData[1].hasError
    /\ Len(requests) = 2 /\ Cardinality(ResourceRequests) = 1

(* --------------------------------- C18 --------------------------------- *)

(* the error classes raised before the operation's request is built *)
BeforeRequestClasses == {"validation", "missingInput", "unsupported"}

(* C18 as stated: every processed item (or run-once operation) has exactly *)
(* one resource request, and an execution over N items has at most N       *)
(* resource requests and at most one organization lookup. *)
C18_AsStated ==
    /\ \A k \in Positions : Processed(k) => Cardinality(ResourceRequestsFor(k)) = 1
    /\ Cardinality(ResourceRequests) <= nItems
    /\ Cardinality(Lookups) <= 1

(* C18 amended: every item (or run-once operation) has at most one         *)
(* resource request, a failed one is never repeated; a processed item has  *)
(* exactly one unless it failed before its request was built, and then it  *)
(* has none.  A per-item operation over N items issues at most N resource  *)
(* requests, an operation run once at most one (also when N = 0), besides  *)
(* the single organization lookup of the organization-scoped nodes. *)
C18_AtMostOneRequest ==
    /\ \A i \in ResourceRequests : requests[i].item \in Positions
    /\ \A k \in Positions :
          /\ Cardinality(ResourceRequestsFor(k)) <= 1
          /\ Processed(k) =>
                (ResourceRequestsFor(k) = {} <=> FailedAt(k, BeforeRequestClasses))
    /\ Cardinality(ResourceRequests) <= (IF PerItemOp THEN nItems ELSE 1)
    /\ Cardinality(Lookups) <= (IF node \in OrgNodes THEN 1 ELSE 0)

C18_Witness ==
    /\ PerItemOp /\ continueOnFail /\ nItems = 3 /\ pc = "done"
    /\ FailedAt(1, {"transport"}) /\ ~returnData[1].hasError /\ ~returnData[3].hasError
    /\ \A k \in 0..2 : Cardinality(ResourceRequestsFor(k)) = 1
    /\ Cardinality(ResourceRequests) = 3

(* --------------------------------- C19 --------------------------------- *)

(* C19: a create whose required field is empty or whitespace-only fails    *)
(* with a validation error and issues no POST. *)
C19_AsStated ==
    operation \in CreateOps =>
        /\ \A i \in ResourceRequests :
              requests[i].req.method = "POST" => RequiredProvided(ParamsAt(requests[i].item))
        /\ \A k \in Positions :
              (Processed(k) /\ ~RequiredProvided(ParamsAt(k))) => FailedAt(k, ValidationClasses)

(* --------------------------------- C20 --------------------------------- *)

UploadOp == node \in {"Document", "DocRouter"} /\ operation = "upload"

(* the item index the error of position k is tagged with *)
ErrorIndexAt(k) ==
    IF Len(returnData) > k THEN returnData[k + 1].error.itemIndex ELSE thrown.itemIndex

BufferReadsFor(k) == {i \in DOMAIN bufferReads : bufferReads[i] = k}

(* C20: an upload item without its binary attachment fails with a          *)
(* missing-input error tagged with the item's index, and neither the read  *)
(* of the attachment nor the POST happens for that item. *)
C20_MissingBinary ==
    UploadOp =>
        \A k \in 0..(nItems - 1) :
            (Processed(k) /\ ~ParamsAt(k).binary.present) =>
                /\ FailedAt(k, {"missingInput"})
                /\ ErrorIndexAt(k) = k
                /\ BufferReadsFor(k) = {}
                /\ ResourceRequestsFor(k) = {}

C20_Witness ==
    /\ UploadOp /\ continueOnFail /\ nItems = 3 /\ pc = "done"
    /\ ParamsAt(0).binary.present /\ ~ParamsAt(1).binary.present /\ ParamsAt(2).binary.present
    /\ FailedAt(1, {"missingInput"}) /\ returnData[2].error.itemIndex = 1
    /\ bufferReads = <<0, 2>>
    /\ ResourceRequestsFor(0) # {} /\ ResourceRequestsFor(1) = {} /\ ResourceRequestsFor(2) # {}

(* --------------------------------- C21 --------------------------------- *)

(* empty or whitespace-only *)
Blank(s) == \A i \in DOMAIN s : s[i] = " "

RevidRequiredMessages ==
    {"Prompt Revision ID is required for Update.", "Prompt Revision ID is required for Delete."}

(* the error position k ended in *)
ErrorAt(k) == IF Len(returnData) > k THEN returnData[k + 1].error ELSE thrown

LLMUpdateOrDelete == node = "LLM" /\ operation \in {"update", "delete"}

(* C21 as stated: an LLM update or delete whose prompt revision ID is      *)
(* blank issues no request for the item and fails with the                 *)
(* revision-ID-required validation error, whatever else is wrong with the  *)
(* item. *)
C21_AsStated ==
    LLMUpdateOrDelete =>
        \A k \in 0..(nItems - 1) :
            (Processed(k) /\ Blank(ParamsAt(k).promptRevid)) =>
                /\ ResourceRequestsFor(k) = {}
                /\ FailedAt(k, {"validation"})
                /\ ErrorAt(k).message \in RevidRequiredMessages

(* C21 amended: an LLM update or delete whose prompt revision ID is blank  *)
(* issues no request for the item and fails with a validation error: the   *)
(* revision-ID-required error, except for an update whose updatedLlmResult *)
(* is malformed, which is parsed first and fails with the parse error. *)
C21_BlankRevid ==
    LLMUpdateOrDelete =>
        \A k \in 0..(nItems - 1) :
            (Processed(k) /\ Blank(ParamsAt(k).promptRevid)) =>
                /\ ResourceRequestsFor(k) = {}
                /\ FailedAt(k, {"validation"})
                /\ IF operation = "update" /\ Malformed(ParamsAt(k).updatedLlmResult)
                   THEN ErrorAt(k).message = SyntaxError.message
                   ELSE /\ ErrorAt(k).message \in RevidRequiredMessages
                        /\ ErrorAt(k).itemIndex = k

C21_Witness ==
    /\ node = "LLM" /\ operation = "update" /\ ~continueOnFail /\ nItems = 3
    /\ pc = "threw" /\ itemIndex = 1
    /\ ~Blank(ParamsAt(0).promptRevid) /\ ResourceRequestsFor(0) # {}
    /\ ParamsAt(1).promptRevid = <<" ">> /\ ResourceRequestsFor(1) = {}
    /\ thrown.message = "Prompt Revision ID is required for Update."

(* --------------------------------- C22 --------------------------------- *)

(* C22: the failure of an operation run once leaves, with                  *)
(* continue-on-failure, exactly one error entry, at position 0, and        *)
(* without it aborts execute with no entry at all; there is never one      *)
(* error entry per input item. *)
C22_AggregateFailure ==
    ~PerItemOp =>
        /\ Len(returnData) <= 1
        /\ \A k \in DOMAIN returnData :
              /\ returnData[k].pairedItem = 0
              /\ returnData[k].hasError => (continueOnFail /\ pc = "done")
        /\ (pc = "threw" /\ LookupPassed) => (~continueOnFail /\ returnData = <<>>)
        /\ (pc = "done" /\ ResourceRequests = {}) => (returnData # <<>> /\ returnData[1].hasError)

C22_Witness ==
    /\ node = "KnowledgeBase" /\ operation = "search" /\ continueOnFail /\ nItems = 3
    /\ pc = "done" /\ Len(returnData) = 1
    /\ returnData[1].hasError /\ returnData[1].pairedItem = 0
    /\ returnData[1].error.cls = "transport"

(* --------------------------------- C23 --------------------------------- *)

(* the organization segment of a /v0/orgs/{org}/... path *)
OrgSegment(url) == SubSeq(url, 2, 1 + Len(organizationId))

(* C23: in an organization-scoped node the organization id is the one the  *)
(* execution's lookup returned, and every resource request of the          *)
(* execution, for every item and operation, carries exactly that id in     *)
(* its /v0/orgs/{org}/ path. *)
C23_OrganizationFixed ==
    node \in OrgNodes =>
        /\ organizationId # <<>> => (tokenAnswer.t = "str" /\ organizationId = tokenAnswer.v)
        /\ \A i \in ResourceRequests :
              /\ organizationId # <<>>
              /\ requests[i].req.url[1] = "/v0/orgs/"
              /\ Len(requests[i].req.url) > 1 + Len(organizationId)
              /\ OrgSegment(requests[i].req.url) = tokenAnswer.v

C23_Witness ==
    /\ node = "Tag" /\ operation = "update" /\ nItems = 3 /\ pc = "done"
    /\ tokenAnswer = Str(<<"o2">>)
    /\ Cardinality(ResourceRequests) = 3
    /\ \A i \in ResourceRequests : OrgSegment(requests[i].req.url) = <<"o2">>

(* --------------------------------- C24 --------------------------------- *)

LookupFailed == node \in OrgNodes /\ Lookups # {} /\ organizationId = <<>> /\ pc # "awaitLookup"

(* C25: a failed organization lookup (transport error, or an answer with   *)
(* no organization_id) makes execute raise under either                    *)
(* continue-on-failure setting: there is no result list, no error entry,   *)
(* and no item is processed. *)
C25_LookupFailureFatal ==
    LookupFailed =>
        /\ pc = "threw"
        /\ thrown.cls \in {"transport", "configuration"}
        /\ returnData = <<>>
        /\ ResourceRequests = {}
        /\ itemIndex = 0 /\ pending = NoPending /\ bufferReads = <<>>

C25_Witness ==
    /\ node \in OrgNodes /\ continueOnFail /\ nItems = 3 /\ PerItemOp
    /\ tokenAnswer = Str(<<"o1">>)
    /\ pc = "threw" /\ thrown.cls = "transport" /\ organizationId = <<>>
    /\ returnData = <<>> /\ Len(requests) = 1

(* --------------------------------- C26 --------------------------------- *)

GetOrCheckOnce ==
    \/ node = "Account" /\ operation \in {"getUser", "getOrganization"}
    \/ node = "Schema" /\ operation \in {"validate", "listVersions"}

(* what the parameters of the first item alone determine *)
FromFirstItem == PrepareOnce(node, operation, params[1], nodeParams, organizationId)

(* C26: Account getUser/getOrganization and Schema validate/listVersions   *)
(* run once per execution on the parameters of item 0: for every N,        *)
(* N = 0 included, at most one request is issued, it is the one the        *)
(* parameters of item 0 determine, a normal return has issued it and       *)
(* carries one result tagged 0, and the loop over the items is never       *)
(* entered. *)
C26_OnceAtItemZero ==
    GetOrCheckOnce =>
        /\ Cardinality(ResourceRequests) <= 1
        /\ \A i \in ResourceRequests :
              /\ requests[i].item = 0
              /\ FromFirstItem.tag = "request"
              /\ requests[i].req = FromFirstItem.req
        /\ Len(returnData) <= 1
        /\ itemIndex = 0
        /\ pc = "done" =>
              /\ OneResultAtZero
              /\ ~returnData[1].hasError => Cardinality(ResourceRequests) = 1

C26_Witness ==
    /\ GetOrCheckOnce /\ nItems = 3 /\ pc = "done"
    /\ params[2] # params[1] /\ params[3] # params[1]
    /\ OneResultAtZero /\ ~returnData[1].hasError
    /\ \E i \in ResourceRequests :
          /\ requests[i].req = FromFirstItem.req
          /\ requests[i].req #
                PrepareOnce(node, operation, params[3], nodeParams, organizationId).req

(* the same without input items *)
C26_WitnessEmptyBatch ==
    /\ GetOrCheckOnce /\ nItems = 0 /\ pc = "done"
    /\ OneResultAtZero /\ Cardinality(ResourceRequests) = 1

(* --------------------------------- C27 --------------------------------- *)

(* C27: for a non-empty tagIds text, Document upload and Document update   *)
(* send the same list of trimmed tokens when there is at least one token;  *)
(* when there is none (only commas and blanks) upload leaves tag_ids out   *)
(* of the body and update sends tag_ids as the empty list. *)
C27_TokenlessTagIds ==
    (node = "Document" /\ operation \in {"upload", "update"}) =>
        \A i \in ResourceRequests :
            LET input == ParamsAt(requests[i].item).tagIds
                toks == TokensOf(input)
                body == requests[i].req.body
            IN input # <<>> =>
                  IF toks # <<>>
                  THEN "tag_ids" \in DOMAIN body /\ body["tag_ids"] = List(toks)
                  ELSE IF operation = "upload"
                  THEN "tag_ids" \notin DOMAIN body
                  ELSE "tag_ids" \in DOMAIN body /\ body["tag_ids"] = List(<<>>)

C27_Witness ==
    /\ node = "Document" /\ operation = "update" /\ pc = "done"
    /\ \E i \in ResourceRequests :
          /\ ParamsAt(requests[i].item).tagIds = TagsNone
          /\ requests[i].req.body["tag_ids"] = List(<<>>)
    /\ \E i \in ResourceRequests :
          /\ ParamsAt(requests[i].item).tagIds = TagsAB
          /\ requests[i].req.body["tag_ids"] = List(<<<<"a">>, <<"b">>>>)

(* the upload side: no tag_ids for the same text *)
C27_WitnessUpload ==
    /\ node = "Document" /\ operation = "upload" /\ pc = "done"
    /\ \E i \in ResourceRequests :
          /\ ParamsAt(requests[i].item).tagIds = TagsNone
          /\ "tag_ids" \notin DOMAIN requests[i].req.body

(* --------------------------------- C28 --------------------------------- *)

(* the prompt_revid query parameter of request i *)
SentRevid(i) == requests[i].req.qs["prompt_revid"]

(* C28: LLM Run and Get never fail on the prompt revision ID: an empty one *)
(* is sent as prompt_revid = "default" and any other, blank ones included, *)
(* is sent as it is; Update and Delete send the trimmed value and reject,  *)
(* with no request, a value that is empty once trimmed. *)
C28_RevidHandling ==
    node = "LLM" =>
        /\ operation \in {"run", "get"} =>
              /\ \A i \in ResourceRequests :
                    LET revid == ParamsAt(requests[i].item).promptRevid IN
                    SentRevid(i) = Str(IF revid = <<>> THEN <<"default">> ELSE revid)
              /\ \A k \in 0..(nItems - 1) :
                    Processed(k) =>
                        /\ ResourceRequestsFor(k) # {}
                        /\ ~FailedAt(k, ValidationClasses)
        /\ operation \in {"update", "delete"} =>
              /\ \A i \in ResourceRequests :
                    LET revid == ParamsAt(requests[i].item).promptRevid IN
                    ~Blank(revid) /\ SentRevid(i) = Str(Trim(revid))
              /\ \A k \in 0..(nItems - 1) :
                    (Processed(k) /\ Blank(ParamsAt(k).promptRevid)) =>
                        (ResourceRequestsFor(k) = {} /\ FailedAt(k, {"validation"}))

C28_Witness ==
    /\ node = "LLM" /\ operation = "get" /\ nItems = 3 /\ pc = "done"
    /\ ParamsAt(0).promptRevid = <<>> /\ ParamsAt(1).promptRevid = <<" ">>
    /\ ParamsAt(2).promptRevid = <<"r">>
    /\ \E i \in ResourceRequestsFor(0) : SentRevid(i) = Str(<<"default">>)
    /\ \E i \in ResourceRequestsFor(1) : SentRevid(i) = Str(<<" ">>)
    /\ \A k \in 1..3 : ~returnData[k].hasError

(* the update side: the trimmed value is sent *)
C28_WitnessUpdate ==
    /\ node = "LLM" /\ operation = "update" /\ pc = "done"
    /\ \E i \in ResourceRequests :
          /\ ParamsAt(requests[i].item).promptRevid = <<" ", "r">>
          /\ SentRevid(i) = Str(<<"r">>)

(* --------------------------------- C29 --------------------------------- *)

(* the parts of an upload body that come from the node's parameters *)
TagsAndMetadata(body) ==
    [k \in {"tag_ids", "metadata"} \cap DOMAIN body |-> body[k]]

(* C29: the upload-only node rejects an operation other than upload before *)
(* it has read a parameter or the credentials and before any request,      *)
(* never issues the organization lookup, and reads organizationId,         *)
(* binaryPropertyName, documentName, tagIds and metadata once, at item     *)
(* index 0: every upload of the batch goes to the organization of item 0   *)
(* with the same tag list and metadata. *)
C29_UploadOnlyNode ==
    node = "DocRouter" =>
        /\ Lookups = {}
        /\ operation # "upload" =>
              /\ requests = <<>> /\ returnData = <<>> /\ locals = NoLocals
              /\ pc \in {"start", "threw"}
              /\ pc = "threw" => thrown.cls = "unsupported"
        /\ (operation = "upload" /\ pc # "start") =>
              /\ locals.credentials
              /\ locals.organizationId = params[1].organizationId
              /\ locals.binaryPropertyName = params[1].binaryPropertyName
              /\ locals.documentNameParam = params[1].documentName
              /\ locals.tagIdsParam = params[1].tagIds
              /\ locals.metadataParam = params[1].metadata
        /\ \A i \in ResourceRequests :
              /\ requests[i].req.url = <<"/v0/orgs/">> \o params[1].organizationId \o <<"/documents">>
              /\ \A j \in ResourceRequests :
                    TagsAndMetadata(requests[i].req.body) = TagsAndMetadata(requests[j].req.body)
              /\ LET toks == TokensOf(params[1].tagIds)
                     body == requests[i].req.body
                 IN IF toks = <<>> THEN "tag_ids" \notin DOMAIN body
                    ELSE "tag_ids" \in DOMAIN body /\ body["tag_ids"] = List(toks)

C29_Witness ==
    /\ node = "DocRouter" /\ operation = "upload" /\ nItems = 3 /\ pc = "done"
    /\ tokenAnswer = Undefined
    /\ params[1].organizationId = <<"o2">> /\ params[2].organizationId = <<"o1">>
    /\ params[2].binary.present /\ params[3].binary.present
    /\ params[2].tagIds # params[1].tagIds
    /\ Cardinality(ResourceRequests) = 3
    /\ \A i \in ResourceRequests :
          /\ requests[i].req.url = <<"/v0/orgs/", "o2", "/documents">>
          /\ requests[i].req.body["tag_ids"] = List(<<<<"a">>, <<"b">>>>)

(* an operation other than upload is refused at once *)
C29_WitnessUnknown ==
    /\ node = "DocRouter" /\ operation = "bogus" /\ nItems = 3
    /\ pc = "threw" /\ thrown.cls = "unsupported" /\ requests = <<>> /\ locals = NoLocals

(* --------------------------------- C30 --------------------------------- *)

(* execute has returned its result list or raised *)
Finished == pc \in {"done", "threw"}

(* C30 as stated: an execution over N items has finished after at most     *)
(* N + 1 requests. *)
C30_AsStated == Finished => Len(requests) <= nItems + 1

(* C30 amended: every execution finishes, by returning a result list or by *)
(* raising, and issues at most max(N, 1) + 1 requests: the organization    *)
(* lookup and then one request per item, or one request in all for an      *)
(* operation run once, which is issued for N = 0 too. *)
C30_Terminates ==
    /\ <>Finished
    /\ [](Len(requests) <= Max(nItems, 1) + 1)

C30_Witness ==
    /\ node = "Document" /\ operation = "list" /\ nItems = 0 /\ pc = "done"
    /\ Len(requests) = 2 /\ OneResultAtZero /\ ~returnData[1].hasError

====
